---- MODULE Spec2Model ----
(***************************************************************************)
(* A model of cctx ("living context"): the knowledge store of systems and  *)
(* dependency edges (cctx/crud.py), the dependency graph engine            *)
(* (cctx/graph.py) and the validation framework (cctx/validators).         *)
(*                                                                         *)
(* Paths are strings; their order is Python's / SQLite's code point order, *)
(* computed from the code points of each string (Chars).  A Python list is *)
(* a sequence, a dict is a function together with its key order.           *)
(***************************************************************************)
EXTENDS Integers, Sequences, FiniteSets, TLC

VARIABLES
    systems,    \* rows of table systems: the set of registered paths
    edges,      \* rows of table system_dependencies: <<system_path, depends_on>>
    last,       \* the last call and what it returned or raised
    adrs,       \* rows of table adrs: records [id, file_path]
    db_file,    \* the database file: "absent", "empty" (no schema) or "ok"
    fs,         \* the project tree: .ctx directories and their documents
    run,        \* the ValidationRunner call in progress
    _fixers,    \* FixerRegistry._fixers: fix_id -> fixer class
    fixed,      \* the fix calls made so far, oldest first
    tx          \* the ContextDB connection: transaction blocks and commit point

vars == <<systems, edges, last, adrs, db_file, fs, run, _fixers, fixed, tx>>

\* What only the fixer framework and the transaction manager touch.
tools == <<_fixers, fixed, tx>>

\* What the store operations and graph queries never touch.
project == <<adrs, db_file, fs, run>>

\* ------------------------------------------------------------------ bounds

\* At most this many rows in system_dependencies.
MaxEdges == 4

\* At most this many transaction() blocks open inside one another.
MaxNesting == 2

\* At most this many lines in a markdown document.
MaxLines == 4

\* ------------------------------------------------------------------ paths

\* The system paths the callers use.
Paths == {"api", "cli", "core", "ui"}

\* Arguments that _validate_path rejects: empty, blank, path traversal.
BadPaths == {"", " ", "../ui"}

\* The code points of each string.
Chars(p) ==
    CASE p = "api"   -> <<97, 112, 105>>
      [] p = "cli"   -> <<99, 108, 105>>
      [] p = "core"  -> <<99, 111, 114, 101>>
      [] p = "ui"    -> <<117, 105>>
      [] p = ""      -> <<>>
      [] p = " "     -> <<32>>
      [] p = "../ui" -> <<46, 46, 47, 117, 105>>
      [] p = "."     -> <<46>>
      [] p = "lost"  -> <<108, 111, 115, 116>>
      [] p = "a.ts"  -> <<97, 46, 116, 115>>
      [] p = "x (External)" -> <<120, 32, 40, 69, 120, 116, 101, 114, 110, 97, 108, 41>>
      [] p = "x(External)" -> <<120, 40, 69, 120, 116, 101, 114, 110, 97, 108, 41>>
      [] p = "UI parts" -> <<85, 73, 32, 112, 97, 114, 116, 115>>
      [] p = "src/a b"  -> <<115, 114, 99, 47, 97, 32, 98>>
      [] p = "high"  -> <<104, 105, 103, 104>>
      [] p = "High"  -> <<72, 105, 103, 104>>
      [] p = "low"   -> <<108, 111, 119>>
      [] p = "ADR-1"  -> <<65, 68, 82, 45, 49>>
      [] p = "ADR-10" -> <<65, 68, 82, 45, 49, 48>>
      [] p = "ADR-2"  -> <<65, 68, 82, 45, 50>>
      [] p = "snapshot.md"    -> <<115, 110, 97, 112, 115, 104, 111, 116, 46, 109, 100>>
      [] p = "constraints.md" -> <<99, 111, 110, 115, 116, 114, 97, 105, 110, 116, 115, 46, 109, 100>>
      [] p = "decisions.md"   -> <<100, 101, 99, 105, 115, 105, 111, 110, 115, 46, 109, 100>>
      [] p = "debt.md"        -> <<100, 101, 98, 116, 46, 109, 100>>
      [] p = "api/.ctx/adr/ADR-1.md" ->
             <<97, 112, 105, 47, 46, 99, 116, 120, 47, 97, 100, 114, 47, 65, 68, 82, 45, 49, 46, 109, 100>>
      [] p = "api/.ctx/adr/ADR-2.md" ->
             <<97, 112, 105, 47, 46, 99, 116, 120, 47, 97, 100, 114, 47, 65, 68, 82, 45, 50, 46, 109, 100>>
      [] p = "api/.ctx/adr/ADR-2-old.md" ->
             <<97, 112, 105, 47, 46, 99, 116, 120, 47, 97, 100, 114, 47, 65, 68, 82, 45, 50, 45, 111, 108, 100, 46, 109, 100>>
      [] p = "docs/ADR-2.md" ->
             <<100, 111, 99, 115, 47, 65, 68, 82, 45, 50, 46, 109, 100>>

RECURSIVE SeqLess(_, _)
\* Python's str.__lt__ / list.__lt__ and SQLite's BINARY collation:
\* the first differing element decides, a proper prefix is smaller.
SeqLess(a, b) ==
    IF b = <<>> THEN FALSE
    ELSE IF a = <<>> THEN TRUE
    ELSE IF Head(a) # Head(b) THEN Head(a) < Head(b)
    ELSE SeqLess(Tail(a), Tail(b))

PathLess(p, q) == SeqLess(Chars(p), Chars(q))

RECURSIVE SetToSeq(_)
SetToSeq(S) ==
    IF S = {} THEN <<>>
    ELSE LET x == CHOOSE x \in S : TRUE IN <<x>> \o SetToSeq(S \ {x})

\* sorted(list of str)
sorted(s) == SortSeq(s, PathLess)

Range(s) == {s[i] : i \in DOMAIN s}

\* x in list
InList(x, s) == \E i \in DOMAIN s : s[i] = x

\* The orders in which a Python set of the elements of S may be iterated.
RECURSIVE Permutations_of(_)
Permutations_of(S) ==
    IF S = {} THEN {<<>>}
    ELSE UNION {{<<x>> \o p : p \in Permutations_of(S \ {x})} : x \in S}

\* ------------------------------------------------------------------ project tree

\* The project root as a relative path: str(Path(".")).
Root == "."

\* A document that is not there, and the same for a directory adr/.
NoSnapshot == [state |-> "absent", t |-> 0, files |-> <<>>,
               dependencies |-> <<>>, dependents |-> <<>>]
NoDoc == [state |-> "absent", t |-> 0]
NoDecisions == [state |-> "absent", t |-> 0, indexed |-> <<>>]
NoDebt == [state |-> "absent", rows |-> <<>>]
NoAdrDir == [exists |-> FALSE, files |-> <<>>]

\* A project with a root .ctx directory and nothing else.  graph_json is what
\* graph.json holds, pyproject what pyproject.toml holds ("absent", "db_name_txt"
\* for [tool.cctx] db_name = "knowledge.txt", "tool_scalar" for tool = 1),
\* templates the state of the packaged template files ("ok", "missing",
\* "unreadable"), read_only whether the tree refuses every write, loose the
\* paths of the files that lie outside the context directories, committed the
\* documents that git has in its history: of these _get_file_mtime gives the
\* time of the last commit, whatever was written to the file since.
EmptyTree ==
    [ctx         |-> {Root},
     dirs        |-> {},
     files       |-> [d \in Paths |-> {}],
     sources     |-> [d \in Paths |-> <<>>],
     snapshot    |-> [d \in Paths |-> NoSnapshot],
     constraints |-> [d \in Paths |-> NoDoc],
     decisions   |-> [d \in Paths \cup {Root} |-> NoDecisions],
     debt        |-> [d \in Paths \cup {Root} |-> NoDebt],
     adr         |-> [d \in Paths \cup {Root} |-> NoAdrDir],
     graph       |-> NoDoc,
     graph_json  |-> <<>>,
     pyproject   |-> "absent",
     templates   |-> "ok",
     read_only   |-> FALSE,
     loose       |-> {},
     committed   |-> {}]

\* No ValidationRunner call has been made.
NoRun == [pc |-> "idle"]

\* The store operations and graph queries work on an initialized database.
ProjectIdle ==
    /\ adrs = {}
    /\ db_file = "ok"
    /\ fs = EmptyTree
    /\ run = NoRun

\* FixerRegistry.__init__: self._fixers = {}
EmptyRegistry == [fix_id \in {} |-> ""]

\* No ContextDB connection is open.
NoTransaction == [pc |-> "closed"]

\* No fixer is registered, no fix was applied, no connection is open.
ToolsIdle ==
    /\ _fixers = EmptyRegistry
    /\ fixed = <<>>
    /\ tx = NoTransaction

\* ------------------------------------------------------------------ store

MaxPathLen == 512

\* _validate_path: TRUE when it raises ValueError.
_validate_path(path) ==
    LET c == Chars(path) IN
    \/ c = <<>>
    \/ \A i \in DOMAIN c : c[i] = 32
    \/ Len(c) > MaxPathLen
    \/ \E i \in 1..(Len(c) - 1) : c[i] = 46 /\ c[i + 1] = 46

\* SELECT * FROM systems ORDER BY path
list_systems(S) == sorted(SetToSeq(S))

RowLess(r, s) ==
    \/ PathLess(r[1], s[1])
    \/ r[1] = s[1] /\ PathLess(r[2], s[2])

\* SELECT system_path, depends_on FROM system_dependencies ORDER BY 1, 2
dependency_rows(E) == SortSeq(SetToSeq(E), RowLess)

\* The constraints of the schema (cctx/data/schema.sql): systems.path is the
\* primary key; system_dependencies has the primary key (system_path,
\* depends_on) and both columns reference systems(path) ON DELETE CASCADE;
\* ContextDB turns PRAGMA foreign_keys ON.
systems_integrity_conflict(S, path) == path \in S

dependencies_integrity_conflict(S, E, system_path, depends_on) ==
    \/ system_path \notin S
    \/ depends_on \notin S
    \/ <<system_path, depends_on>> \in E

on_delete_cascade(E, path) == {e \in E : e[1] # path /\ e[2] # path}

Init ==
    /\ systems = {}
    /\ edges = {}
    /\ last = [op |-> "init"]
    /\ ProjectIdle
    /\ ToolsIdle

create_system ==
    /\ UNCHANGED <<project, tools>>
    /\ \E path \in Paths \cup BadPaths :
        IF _validate_path(path)
        THEN /\ last' = [op |-> "create_system", raised |-> "ValueError"]
             /\ UNCHANGED <<systems, edges>>
        ELSE IF systems_integrity_conflict(systems, path)
        THEN /\ last' = [op |-> "create_system", raised |-> "IntegrityError"]
             /\ UNCHANGED <<systems, edges>>
        ELSE /\ systems' = systems \cup {path}
             /\ last' = [op |-> "create_system", raised |-> "none"]
             /\ UNCHANGED edges

delete_system ==
    /\ UNCHANGED <<project, tools>>
    /\ \E path \in Paths :
        /\ systems' = systems \ {path}
        /\ edges' = on_delete_cascade(edges, path)
        /\ last' = [op |-> "delete_system", returned |-> (path \in systems)]

\* mutant: a system may not depend on itself
add_dependency_no_self ==
    /\ UNCHANGED <<project, tools>>
    /\ \E system_path \in Paths \cup BadPaths, depends_on \in Paths \cup BadPaths :
        IF _validate_path(system_path) \/ _validate_path(depends_on)
           \/ system_path = depends_on
        THEN /\ last' = [op |-> "add_dependency", raised |-> "ValueError"]
             /\ UNCHANGED <<systems, edges>>
        ELSE IF dependencies_integrity_conflict(systems, edges, system_path, depends_on)
        THEN /\ last' = [op |-> "add_dependency", raised |-> "IntegrityError"]
             /\ UNCHANGED <<systems, edges>>
        ELSE /\ Cardinality(edges) < MaxEdges
             /\ edges' = edges \cup {<<system_path, depends_on>>}
             /\ last' = [op |-> "add_dependency", raised |-> "none"]
             /\ UNCHANGED systems

add_dependency ==
    /\ UNCHANGED <<project, tools>>
    /\ \E system_path \in Paths \cup BadPaths, depends_on \in Paths \cup BadPaths :
        IF _validate_path(system_path) \/ _validate_path(depends_on)
        THEN /\ last' = [op |-> "add_dependency", raised |-> "ValueError"]
             /\ UNCHANGED <<systems, edges>>
        ELSE IF dependencies_integrity_conflict(systems, edges, system_path, depends_on)
        THEN /\ last' = [op |-> "add_dependency", raised |-> "IntegrityError"]
             /\ UNCHANGED <<systems, edges>>
        ELSE /\ Cardinality(edges) < MaxEdges
             /\ edges' = edges \cup {<<system_path, depends_on>>}
             /\ last' = [op |-> "add_dependency", raised |-> "none"]
             /\ UNCHANGED systems

remove_dependency ==
    /\ UNCHANGED <<project, tools>>
    /\ \E system_path \in Paths, depends_on \in Paths :
        /\ edges' = edges \ {<<system_path, depends_on>>}
        /\ last' = [op |-> "remove_dependency",
                    returned |-> (<<system_path, depends_on>> \in edges)]
        /\ UNCHANGED systems

\* ------------------------------------------------------------------ graph

\* for row in results: ... append (the loop of _build_adjacency_maps)
RECURSIVE build_rows(_, _, _, _)
build_rows(rows, i, dependencies_map, dependents_map) ==
    IF i > Len(rows) THEN [dependencies |-> dependencies_map, dependents |-> dependents_map]
    ELSE LET system_path == rows[i][1]
             depends_on == rows[i][2]
             d1 == IF system_path \in DOMAIN dependencies_map
                   THEN [dependencies_map EXCEPT
                            ![system_path] = Append(@, depends_on)]
                   ELSE dependencies_map
             d2 == IF depends_on \in DOMAIN dependents_map
                   THEN [dependents_map EXCEPT
                            ![depends_on] = Append(@, system_path)]
                   ELSE dependents_map
         IN build_rows(rows, i + 1, d1, d2)

\* The two dicts; keys is their iteration order, the order of the set
\* system_paths they are built from.
_build_adjacency_maps(S, E, keys) ==
    LET m == build_rows(dependency_rows(E), 1, [p \in S |-> <<>>], [p \in S |-> <<>>])
    IN [keys |-> keys, dependencies |-> m.dependencies, dependents |-> m.dependents]

\* The mutation: the nodes in dict order.
node_order_unsorted(keys) == keys

\* for system_path in sorted(dependencies_map.keys())
node_order(keys) == sorted(keys)

generate_graph(S, E, keys) ==
    LET m == _build_adjacency_maps(S, E, keys)
        order == node_order(m.keys)
    IN [i \in DOMAIN order |->
            [system |-> order[i],
             dependencies |-> sorted(m.dependencies[order[i]]),
             dependents |-> sorted(m.dependents[order[i]])]]

\* The while loop shared by get_all_dependencies and get_all_dependents:
\* to_visit.pop() takes the last element.  steps counts the iterations.
RECURSIVE traverse(_, _, _, _)
traverse(map, visited, to_visit, steps) ==
    IF to_visit = <<>> THEN [visited |-> visited, steps |-> steps]
    ELSE LET current == to_visit[Len(to_visit)]
             rest == SubSeq(to_visit, 1, Len(to_visit) - 1)
         IN IF current \in visited
            THEN traverse(map, visited, rest, steps + 1)
            ELSE LET v == visited \cup {current}
                     nbrs == IF current \in DOMAIN map THEN map[current] ELSE <<>>
                     push == SelectSeq(nbrs, LAMBDA dep : dep \notin v)
                 IN traverse(map, v, rest \o push, steps + 1)

\* The mutation: the origin counts as visited from the start.
get_all_dependencies_origin_visited(S, E, system_path) ==
    LET m == _build_adjacency_maps(S, E, list_systems(S))
    IN IF system_path \notin DOMAIN m.dependencies
       THEN [visited |-> {}, steps |-> 0]
       ELSE traverse(m.dependencies, {system_path}, m.dependencies[system_path], 0)

get_all_dependencies(S, E, system_path) ==
    LET m == _build_adjacency_maps(S, E, list_systems(S))
    IN IF system_path \notin DOMAIN m.dependencies
       THEN [visited |-> {}, steps |-> 0]
       ELSE traverse(m.dependencies, {}, m.dependencies[system_path], 0)

\* The mutation: the direct dependents only.
get_all_dependents_direct(S, E, system_path) ==
    LET m == _build_adjacency_maps(S, E, list_systems(S))
    IN IF system_path \notin DOMAIN m.dependents
       THEN [visited |-> {}, steps |-> 0]
       ELSE [visited |-> Range(m.dependents[system_path]), steps |-> 0]

get_all_dependents(S, E, system_path) ==
    LET m == _build_adjacency_maps(S, E, list_systems(S))
    IN IF system_path \notin DOMAIN m.dependents
       THEN [visited |-> {}, steps |-> 0]
       ELSE traverse(m.dependents, {}, m.dependents[system_path], 0)

Min(a, b) == IF a < b THEN a ELSE b

\* while True: successor = stack.pop() ... until successor == node
RECURSIVE pop_scc(_, _, _)
pop_scc(st, node, scc) ==
    LET successor == st.stack[Len(st.stack)]
        st1 == [st EXCEPT !.stack = SubSeq(@, 1, Len(@) - 1),
                          !.on_stack = (successor :> FALSE) @@ @]
        scc1 == Append(scc, successor)
    IN IF successor = node THEN [st |-> st1, scc |-> scc1]
       ELSE pop_scc(st1, node, scc1)

\* The mutation: every indexed successor lowers the lowlink.
is_on_stack_always(st, successor) == TRUE

\* elif on_stack.get(successor, False)
is_on_stack(st, successor) ==
    successor \in DOMAIN st.on_stack /\ st.on_stack[successor]

\* detect_cycles.strongconnect, a recursive function: st holds the closure's
\* variables, depth the number of its frames on the call stack.
RECURSIVE strongconnect(_, _, _)
RECURSIVE strongconnect_successors(_, _, _, _)
strongconnect_successors(map, st, node, i) ==
    LET succs == IF node \in DOMAIN map THEN map[node] ELSE <<>>
    IN IF i > Len(succs) THEN st
       ELSE LET successor == succs[i]
            IN IF successor \notin DOMAIN st.index
               THEN LET st1 == strongconnect(map, st, successor)
                        st2 == [st1 EXCEPT !.lowlinks[node] =
                                   Min(@, st1.lowlinks[successor])]
                    IN strongconnect_successors(map, st2, node, i + 1)
               ELSE IF is_on_stack(st, successor)
               THEN strongconnect_successors(map,
                        [st EXCEPT !.lowlinks[node] = Min(@, st.index[successor])],
                        node, i + 1)
               ELSE strongconnect_successors(map, st, node, i + 1)

strongconnect(map, st, node) ==
    LET st1 == [st EXCEPT !.index = (node :> st.index_counter) @@ @,
                          !.lowlinks = (node :> st.index_counter) @@ @,
                          !.index_counter = @ + 1,
                          !.stack = Append(@, node),
                          !.on_stack = (node :> TRUE) @@ @,
                          !.depth = @ + 1,
                          !.max_depth = IF st.depth + 1 > @ THEN st.depth + 1 ELSE @]
        st2 == strongconnect_successors(map, st1, node, 1)
        st3 == IF st2.lowlinks[node] = st2.index[node]
               THEN LET r == pop_scc(st2, node, <<>>)
                        self_loop == InList(r.scc[1],
                                        IF r.scc[1] \in DOMAIN map
                                        THEN map[r.scc[1]] ELSE <<>>)
                    IN IF Len(r.scc) > 1
                       THEN [r.st EXCEPT !.sccs = Append(@, sorted(r.scc))]
                       ELSE IF Len(r.scc) = 1 /\ self_loop
                       THEN [r.st EXCEPT !.sccs = Append(@, r.scc)]
                       ELSE r.st
               ELSE st2
    IN [st3 EXCEPT !.depth = @ - 1]

\* for node in dependencies_map: if node not in index: strongconnect(node)
RECURSIVE detect_cycles_loop(_, _, _, _)
detect_cycles_loop(map, keys, st, i) ==
    IF i > Len(keys) THEN st
    ELSE IF keys[i] \notin DOMAIN st.index
    THEN detect_cycles_loop(map, keys, strongconnect(map, st, keys[i]), i + 1)
    ELSE detect_cycles_loop(map, keys, st, i + 1)

\* key=lambda x: (len(x), x[0] if x else "")
CycleKeyLess(x, y) ==
    \/ Len(x) < Len(y)
    \/ Len(x) = Len(y) /\ SeqLess(IF x = <<>> THEN <<>> ELSE Chars(x[1]),
                                  IF y = <<>> THEN <<>> ELSE Chars(y[1]))

\* The run of Tarjan's algorithm: its final state.
tarjan(S, E, keys) ==
    LET m == _build_adjacency_maps(S, E, keys)
    IN detect_cycles_loop(m.dependencies, m.keys,
          [index_counter |-> 0, stack |-> <<>>, lowlinks |-> <<>>, index |-> <<>>,
           on_stack |-> <<>>, sccs |-> <<>>, depth |-> 0, max_depth |-> 0], 1)

detect_cycles(S, E, keys) ==
    IF S = {} THEN <<>>
    ELSE SortSeq(tarjan(S, E, keys).sccs, CycleKeyLess)

\* The mutation: the queue is not sorted again after the insertion.
queue_insert_unsorted(queue, other_node) == Append(queue, other_node)

\* queue.append(other_node); queue.sort()
queue_insert(queue, other_node) == sorted(Append(queue, other_node))

\* The mutation: the in-degree counts the dependents.
initial_in_degree_dependents(m) ==
    [node \in DOMAIN m.dependents |-> Len(m.dependents[node])]

\* in_degree = {node: len(deps) for node, deps in dependencies_map.items()}
initial_in_degree(m) ==
    [node \in DOMAIN m.dependencies |-> Len(m.dependencies[node])]

\* for other_node, deps in dependencies_map.items(): ... (the inner loop)
RECURSIVE topo_items(_, _, _, _, _)
topo_items(m, node, st, result, i) ==
    IF i > Len(m.keys) THEN st
    ELSE LET other_node == m.keys[i]
             deps == m.dependencies[other_node]
         IN IF InList(node, deps) /\ ~InList(other_node, result)
            THEN LET deg == st.in_degree[other_node] - 1
                     q == IF deg = 0 /\ ~InList(other_node, st.queue)
                          THEN queue_insert(st.queue, other_node)
                          ELSE st.queue
                 IN topo_items(m, node,
                       [in_degree |-> [st.in_degree EXCEPT ![other_node] = deg],
                        queue |-> q], result, i + 1)
            ELSE topo_items(m, node, st, result, i + 1)

\* while queue: node = queue.pop(0); result.append(node); ...
RECURSIVE topo_loop(_, _, _)
topo_loop(m, st, result) ==
    IF st.queue = <<>> THEN result
    ELSE LET node == Head(st.queue)
             result1 == Append(result, node)
             st1 == topo_items(m, node, [st EXCEPT !.queue = Tail(@)], result1, 1)
         IN topo_loop(m, st1, result1)

\* The mutation: the partial result is returned when a cycle blocks the rest.
get_topological_order_unchecked(S, E, keys) ==
    LET m == _build_adjacency_maps(S, E, keys)
        in_degree == initial_in_degree(m)
        queue == sorted(SelectSeq(m.keys, LAMBDA node : in_degree[node] = 0))
    IN [raised |-> "none",
        returned |-> topo_loop(m, [in_degree |-> in_degree, queue |-> queue], <<>>)]

\* keys is the dict order; the nested detect_cycles call builds its set from
\* the same rows in the same process, so it iterates in the same order.
get_topological_order(S, E, keys) ==
    LET m == _build_adjacency_maps(S, E, keys)
        in_degree == initial_in_degree(m)
        queue == sorted(SelectSeq(m.keys, LAMBDA node : in_degree[node] = 0))
        result == topo_loop(m, [in_degree |-> in_degree, queue |-> queue], <<>>)
    IN IF S = {} THEN [raised |-> "none", returned |-> <<>>]
       ELSE IF Len(result) # Cardinality(S)
       THEN [raised |-> "CyclicDependencyError", cycles |-> detect_cycles(S, E, keys)]
       ELSE [raised |-> "none", returned |-> result]

\* ------------------------------------------------------------------ queries

\* Every store the operations above can build: edges join registered systems.
InitGraph ==
    /\ systems \in SUBSET Paths
    /\ edges \in {E \in SUBSET (systems \X systems) : Cardinality(E) <= MaxEdges}
    /\ last = [op |-> "init"]
    /\ ProjectIdle
    /\ ToolsIdle

GenerateGraph ==
    /\ UNCHANGED <<project, tools>>
    /\ \E keys \in Permutations_of(systems) :
        /\ last' = [op |-> "generate_graph", returned |-> generate_graph(systems, edges, keys)]
        /\ UNCHANGED <<systems, edges>>

GetAllDependencies ==
    /\ UNCHANGED <<project, tools>>
    /\ \E system_path \in Paths :
        /\ last' = [op |-> "get_all_dependencies", arg |-> system_path,
                    returned |-> get_all_dependencies(systems, edges, system_path).visited,
                    steps |-> get_all_dependencies(systems, edges, system_path).steps]
        /\ UNCHANGED <<systems, edges>>

GetAllDependents ==
    /\ UNCHANGED <<project, tools>>
    /\ \E system_path \in Paths :
        /\ last' = [op |-> "get_all_dependents", arg |-> system_path,
                    returned |-> get_all_dependents(systems, edges, system_path).visited,
                    steps |-> get_all_dependents(systems, edges, system_path).steps]
        /\ UNCHANGED <<systems, edges>>

DetectCycles ==
    /\ UNCHANGED <<project, tools>>
    /\ \E keys \in Permutations_of(systems) :
        /\ last' = [op |-> "detect_cycles", returned |-> detect_cycles(systems, edges, keys),
                    depth |-> IF systems = {} THEN 0
                              ELSE tarjan(systems, edges, keys).max_depth]
        /\ UNCHANGED <<systems, edges>>

GetTopologicalOrder ==
    /\ UNCHANGED <<project, tools>>
    /\ \E keys \in Permutations_of(systems) :
        /\ last' = [op |-> "get_topological_order"]
                       @@ get_topological_order(systems, edges, keys)
        /\ UNCHANGED <<systems, edges>>

\* ------------------------------------------------------------------ specifications

Next ==
    \/ create_system
    \/ delete_system
    \/ add_dependency
    \/ remove_dependency

Spec == Init /\ [][Next]_vars

\* A query reads the store and writes nothing, so a second query in the same
\* behaviour would meet the same store: one query per behaviour covers every call.
NoCallYet == last.op = "init"

NextGraph ==
    \/ NoCallYet /\ GenerateGraph
    \/ NoCallYet /\ GetAllDependencies
    \/ NoCallYet /\ GetAllDependents
    \/ NoCallYet /\ DetectCycles
    \/ NoCallYet /\ GetTopologicalOrder

SpecGraph == InitGraph /\ [][NextGraph]_vars

\* ------------------------------------------------------------------ graph theory

RECURSIVE TransitiveClosure(_)
\* Pairs joined by a path of one or more edges of R.
TransitiveClosure(R) ==
    LET R2 == R \cup {p \in Paths \X Paths :
                         \E b \in Paths : <<p[1], b>> \in R /\ <<b, p[2]>> \in R}
    IN IF R2 = R THEN R ELSE TransitiveClosure(R2)

\* In what follows reach is TransitiveClosure(edges).
OnCycle(reach, x) == <<x, x>> \in reach

Acyclic(reach) == \A x \in systems : ~OnCycle(reach, x)

\* The strongly connected component of x.
Component(reach, x) ==
    {x} \cup {y \in systems : <<x, y>> \in reach /\ <<y, x>> \in reach}

\* The place of x in the list s (0 when absent).
Position(x, s) == IF InList(x, s) THEN CHOOSE i \in DOMAIN s : s[i] = x ELSE 0

NoDuplicates(s) == \A i, j \in DOMAIN s : i # j => s[i] # s[j]

\* Strictly ascending in path order.
Ascending(s) == \A i \in 1..(Len(s) - 1) : PathLess(s[i], s[i + 1])

Diamond == {<<"api", "core">>, <<"cli", "core">>, <<"ui", "api">>, <<"ui", "cli">>}

\* ------------------------------------------------------------------ claims

\* C1: on an acyclic store get_topological_order returns a list that holds
\* every registered system exactly once, and for every edge (s depends on d)
\* d stands earlier in the list than s.
C1_TopologicalOrder ==
    LET reach == TransitiveClosure(edges) IN
    (last.op = "get_topological_order" /\ Acyclic(reach)) =>
        /\ last.raised = "none"
        /\ Range(last.returned) = systems
        /\ Len(last.returned) = Cardinality(systems)
        /\ \A e \in edges : Position(e[2], last.returned) < Position(e[1], last.returned)

C1_Witness ==
    LET reach == TransitiveClosure(edges) IN
    /\ last.op = "get_topological_order"
    /\ Acyclic(reach)
    /\ Cardinality(edges) = MaxEdges
    /\ last.raised = "none"
    /\ Len(last.returned) = 4

\* C2: on a store with a cycle (a self-edge included) get_topological_order
\* raises CyclicDependencyError, and detect_cycles returns, for every node on
\* a cycle, a component that holds every node of the cycles through it.
C2_CycleRaises ==
    LET reach == TransitiveClosure(edges) IN
    /\ (last.op = "get_topological_order" /\ ~Acyclic(reach)) =>
          /\ last.raised = "CyclicDependencyError"
          /\ \A x \in systems : OnCycle(reach, x) =>
                \E i \in DOMAIN last.cycles : Component(reach, x) \subseteq Range(last.cycles[i])
    /\ (last.op = "detect_cycles" /\ ~Acyclic(reach)) =>
          \A x \in systems : OnCycle(reach, x) =>
              \E i \in DOMAIN last.returned : Component(reach, x) \subseteq Range(last.returned[i])

C2_Witness ==
    /\ last.op = "get_topological_order"
    /\ last.raised = "CyclicDependencyError"
    /\ \E a, b, c \in systems :
          /\ a # b /\ c \notin {a, b}
          /\ {<<a, a>>, <<b, c>>, <<c, b>>} \subseteq edges
    /\ Len(last.cycles) = 2

\* The systems that may be emitted after the list prefix: not in it, every
\* dependency in it.
Ready(prefix) ==
    {s \in systems \ Range(prefix) :
        \A e \in edges : e[1] = s => e[2] \in Range(prefix)}

\* C3: get_topological_order breaks ties by path order: each system of the
\* returned list is the smallest path among the systems not yet emitted whose
\* dependencies were all emitted before; the diamond gives core, api, cli, ui.
C3_LexicographicTieBreak ==
    (last.op = "get_topological_order" /\ last.raised = "none") =>
        /\ \A i \in DOMAIN last.returned :
              LET ready == Ready(SubSeq(last.returned, 1, i - 1))
              IN /\ last.returned[i] \in ready
                 /\ \A s \in ready : s # last.returned[i] => PathLess(last.returned[i], s)
        /\ (systems = Paths /\ edges = Diamond) =>
              last.returned = <<"core", "api", "cli", "ui">>

C3_Witness ==
    /\ last.op = "get_topological_order"
    /\ systems = Paths
    /\ edges = Diamond
    /\ last.returned = <<"core", "api", "cli", "ui">>

\* The components that are cycles: more than one node, or a self-edge.
CyclicComponents(reach) ==
    {Component(reach, x) : x \in {y \in systems :
        Cardinality(Component(reach, y)) > 1 \/ <<y, y>> \in edges}}

\* C4: detect_cycles returns exactly the strongly connected components with
\* more than one node and the singletons of nodes with a self-edge; no node is
\* in two components; an acyclic graph gives the empty list.
C4_DetectCycles ==
    LET reach == TransitiveClosure(edges) IN
    last.op = "detect_cycles" =>
        /\ {Range(last.returned[i]) : i \in DOMAIN last.returned} = CyclicComponents(reach)
        /\ Len(last.returned) = Cardinality(CyclicComponents(reach))
        /\ \A i \in DOMAIN last.returned : NoDuplicates(last.returned[i])
        /\ \A i, j \in DOMAIN last.returned :
              i # j => Range(last.returned[i]) \cap Range(last.returned[j]) = {}
        /\ Acyclic(reach) => last.returned = <<>>
        /\ \A a \in systems : edges = {<<a, a>>} => last.returned = << <<a>> >>
        /\ \A a, b \in systems : (a # b /\ edges = {<<a, b>>, <<b, a>>}) =>
              Len(last.returned) = 1 /\ Range(last.returned[1]) = {a, b}
                 /\ Len(last.returned[1]) = 2

C4_Witness ==
    /\ last.op = "detect_cycles"
    /\ \E a, b, c, d \in systems :
          /\ Cardinality({a, b, c, d}) = 4
          /\ edges = {<<a, b>>, <<b, a>>, <<c, d>>, <<d, c>>}
    /\ Len(last.returned) = 2

\* C5: get_all_dependencies(p) ends (within 2 * |edges| iterations) and
\* returns the systems reachable from p by one or more edges, and
\* get_all_dependents(p) those reachable by reversed edges; the result is
\* closed under the edge relation, holds p iff p is on a cycle, and is empty
\* when p is not registered.
C5_Closures ==
    LET reach == TransitiveClosure(edges) IN
    /\ last.op = "get_all_dependencies" =>
          /\ last.returned = {y \in systems : <<last.arg, y>> \in reach}
          /\ \A e \in edges : e[1] \in last.returned => e[2] \in last.returned
          /\ last.arg \in systems => (last.arg \in last.returned <=> OnCycle(reach, last.arg))
          /\ last.arg \notin systems => last.returned = {}
          /\ last.steps <= 2 * Cardinality(edges)
    /\ last.op = "get_all_dependents" =>
          /\ last.returned = {y \in systems : <<y, last.arg>> \in reach}
          /\ \A e \in edges : e[2] \in last.returned => e[1] \in last.returned
          /\ last.arg \in systems => (last.arg \in last.returned <=> OnCycle(reach, last.arg))
          /\ last.arg \notin systems => last.returned = {}
          /\ last.steps <= 2 * Cardinality(edges)

C5_Witness ==
    /\ last.op = "get_all_dependencies"
    /\ last.arg \in last.returned
    /\ <<last.arg, last.arg>> \notin edges
    /\ Cardinality(last.returned) >= 3

\* C6: generate_graph returns one node per registered system, systems without
\* edges included, in ascending path order, each node's dependencies and
\* dependents in ascending order; so the output is the same for every call on
\* an unchanged store.
C6_GenerateGraph ==
    last.op = "generate_graph" =>
        /\ Len(last.returned) = Cardinality(systems)
        /\ {last.returned[i].system : i \in DOMAIN last.returned} = systems
        /\ Ascending([i \in DOMAIN last.returned |-> last.returned[i].system])
        /\ \A i \in DOMAIN last.returned :
              LET node == last.returned[i] IN
              /\ Ascending(node.dependencies)
              /\ Ascending(node.dependents)
              /\ Range(node.dependencies) = {e[2] : e \in {f \in edges : f[1] = node.system}}
              /\ Range(node.dependents) = {e[1] : e \in {f \in edges : f[2] = node.system}}

C6_Witness ==
    /\ last.op = "generate_graph"
    /\ Len(last.returned) = 4
    /\ \E i \in DOMAIN last.returned :
          last.returned[i].dependencies = <<>> /\ last.returned[i].dependents = <<>>
    /\ \E i \in DOMAIN last.returned : Len(last.returned[i].dependencies) >= 2
    /\ \E i \in DOMAIN last.returned : Len(last.returned[i].dependents) >= 2

\* ------------------------------------------------------------------ database file

\* ContextDB._open: the database file after a connection was opened.  The file
\* lives in the root .ctx directory.  init_database creates directory and
\* schema; sqlite3.connect alone creates an empty file, and fails when the
\* directory is missing.
ContextDB_open(file, auto_init, ctx) ==
    IF file # "absent" THEN file
    ELSE IF auto_init THEN "ok"
    ELSE IF Root \in ctx THEN "empty"
    ELSE "absent"

\* init_database: db_path.parent.mkdir(parents=True, exist_ok=True)
ContextDB_open_ctx(file, auto_init, ctx) ==
    IF file = "absent" /\ auto_init THEN ctx \cup {Root} ELSE ctx

\* A query succeeds on a database with the schema; on a file without tables it
\* raises sqlite3.OperationalError, which the validators swallow.
query_fails(file) == file # "ok"

\* get_system(db, path) is not None
get_system(S, path) == path \in S

\* get_adr(db, id) is not None
get_adr(A, id) == \E row \in A : row.id = id

\* SELECT * FROM adrs ORDER BY id
list_adrs(A) == SortSeq(SetToSeq(A), LAMBDA r, q : PathLess(r.id, q.id))

\* ------------------------------------------------------------------ strings

\* str.lower() on ASCII
Lower(c) == [i \in DOMAIN c |-> IF c[i] \in 65..90 THEN c[i] + 32 ELSE c[i]]

\* sub in c
Contains(c, sub) ==
    \E i \in 0..(Len(c) - Len(sub)) : SubSeq(c, i + 1, i + Len(sub)) = sub

\* c.endswith(suffix), c.startswith(prefix)
EndsWith(c, suffix) ==
    /\ Len(c) >= Len(suffix)
    /\ SubSeq(c, Len(c) - Len(suffix) + 1, Len(c)) = suffix

StartsWith(c, prefix) ==
    /\ Len(c) >= Len(prefix)
    /\ SubSeq(c, 1, Len(prefix)) = prefix

\* ------------------------------------------------------------------ issues

\* fix_params = {} (a dict is a function of its keys)
NoParams == [key \in {} |-> ""]

ValidationIssue(system, check, severity, file) ==
    [system |-> system, check |-> check, severity |-> severity,
     file |-> file, fix_id |-> "", fix_params |-> NoParams]

FixableIssue(system, check, severity, file, fix_id, fix_params) ==
    [system |-> system, check |-> check, severity |-> severity,
     file |-> file, fix_id |-> fix_id, fix_params |-> fix_params]

\* mutant: a warning fails the validator too
has_errors_or_warnings(issues) ==
    \E i \in DOMAIN issues : issues[i].severity \in {"error", "warning"}

\* any(issue.severity == "error" for issue in issues)
has_errors(issues) == \E i \in DOMAIN issues : issues[i].severity = "error"

ValidatorResult(name, status, issues, systems_checked) ==
    [name |-> name, status |-> status, issues |-> issues,
     systems_checked |-> systems_checked]

\* status = "fail" if has_errors else "pass"
status_of(issues) == IF has_errors(issues) THEN "fail" ELSE "pass"

\* mutant: the database is opened without looking for the file first
db_path_exists_unchecked(file) == TRUE

\* self.db_path.exists(): the guard in front of every database access of a
\* validator
db_path_exists(file) == file # "absent"


\* find_ctx_directories: the directories that hold a .ctx, sorted
find_ctx_directories(f) == sorted(SetToSeq(f.ctx))

\* _find_systems_with_ctx: the same without the project root
_find_systems_with_ctx(f) == sorted(SetToSeq(f.ctx \ {Root}))

\* ------------------------------------------------------------------ SnapshotValidator

external_marker == <<40, 101, 120, 116, 101, 114, 110, 97, 108, 41>>

file_extensions ==
    {<<46, 116, 115>>, <<46, 106, 115>>, <<46, 116, 115, 120>>,
     <<46, 106, 115, 120>>, <<46, 112, 121>>, <<46, 114, 115>>,
     <<46, 103, 111>>, <<46, 106, 115, 111, 110>>, <<46, 121, 97, 109, 108>>,
     <<46, 121, 109, 108>>, <<46, 109, 100>>, <<46, 99, 115, 115>>,
     <<46, 104, 116, 109, 108>>}

_is_external_reference(ref) ==
    LET c == Chars(ref) IN
    \/ Contains(Lower(c), external_marker)
    \/ \E ext \in file_extensions : EndsWith(c, ext)
    \/ Contains(c, <<32>>) /\ ~StartsWith(c, <<115, 114, 99, 47>>)

\* mutant: only the database is asked
_system_exists_db_only(f, file, S, system_path) ==
    db_path_exists(file) /\ ~query_fails(file) /\ get_system(S, system_path)

\* _system_exists: a directory of the project, or else a row of the database
_system_exists(f, file, S, system_path) ==
    \/ system_path \in f.dirs
    \/ db_path_exists(file) /\ ~query_fails(file) /\ get_system(S, system_path)

\* _system_exists reaches ContextDB(self.db_path, auto_init=False)
_system_exists_opens(f, file, system_path) ==
    system_path \notin f.dirs /\ db_path_exists(file)

\* rows of the Files table: the cell of each row, stripped
RECURSIVE _check_file_existence(_, _, _)
_check_file_existence(f, rel_system, rows) ==
    IF rows = <<>> THEN <<>>
    ELSE LET file_path == Head(rows)
             rest == _check_file_existence(f, rel_system, Tail(rows))
         IN  IF file_path = "" \/ file_path \in f.files[rel_system] THEN rest
             ELSE <<ValidationIssue(rel_system, "file_existence", "error",
                                    "snapshot.md")>> \o rest

\* _check_dependencies and _check_dependents: the same loop under two check names
RECURSIVE _check_references(_, _, _, _, _, _)
_check_references(f, file, S, rel_system, rows, check) ==
    IF rows = <<>> THEN <<>>
    ELSE LET dep_path == Head(rows)
             rest == _check_references(f, file, S, rel_system, Tail(rows), check)
         IN  IF dep_path = "" \/ _is_external_reference(dep_path) THEN rest
             ELSE IF _system_exists(f, file, S, dep_path) THEN rest
             ELSE <<ValidationIssue(rel_system, check, "warning",
                                    "snapshot.md")>> \o rest

_check_dependencies(f, file, S, rel_system, doc) ==
    _check_references(f, file, S, rel_system, doc.dependencies, "dependency_exists")

_check_dependents(f, file, S, rel_system, doc) ==
    _check_references(f, file, S, rel_system, doc.dependents, "dependent_exists")

\* some reference of the snapshot makes _system_exists open the database
snapshot_opens(f, file, doc) ==
    \E dep_path \in Range(doc.dependencies) \cup Range(doc.dependents) :
        /\ dep_path # ""
        /\ ~_is_external_reference(dep_path)
        /\ _system_exists_opens(f, file, dep_path)

\* mutant: the loop without its continue
RECURSIVE snapshot_loop_no_continue(_, _, _, _, _, _)
snapshot_loop_no_continue(f, file, S, sys, i, st) ==
    IF i > Len(sys) THEN st
    ELSE LET rel_system == sys[i]
             doc == f.snapshot[rel_system]
             missing == IF doc.state # "absent" THEN <<>>
                        ELSE <<FixableIssue(rel_system, "snapshot_exists", "error",
                                            ".ctx/snapshot.md", "missing_snapshot",
                                            [system_path |-> rel_system])>>
         IN  IF doc.state = "unreadable"
             THEN [st EXCEPT !.raised = TRUE, !.systems_checked = @ + 1]
             ELSE snapshot_loop_no_continue(f, file, S, sys, i + 1,
                      [st EXCEPT !.systems_checked = @ + 1,
                                 !.opened = @ \/ snapshot_opens(f, file, doc),
                                 !.issues = @ \o missing
                                              \o _check_file_existence(f, rel_system, doc.files)
                                              \o _check_dependencies(f, file, S, rel_system, doc)
                                              \o _check_dependents(f, file, S, rel_system, doc)])

\* for system_path in systems: ... (the loop of SnapshotValidator.validate);
\* read_text is not guarded, so an unreadable snapshot.md ends the loop
RECURSIVE snapshot_loop(_, _, _, _, _, _)
snapshot_loop(f, file, S, sys, i, st) ==
    IF i > Len(sys) THEN st
    ELSE LET rel_system == sys[i]
             doc == f.snapshot[rel_system]
         IN  IF doc.state = "absent"
             THEN snapshot_loop(f, file, S, sys, i + 1,
                      [st EXCEPT !.issues = Append(@,
                          FixableIssue(rel_system, "snapshot_exists", "error",
                                       ".ctx/snapshot.md", "missing_snapshot",
                                       [system_path |-> rel_system]))])
             ELSE IF doc.state = "unreadable"
             THEN [st EXCEPT !.raised = TRUE, !.systems_checked = @ + 1]
             ELSE snapshot_loop(f, file, S, sys, i + 1,
                      [st EXCEPT !.systems_checked = @ + 1,
                                 !.opened = @ \/ snapshot_opens(f, file, doc),
                                 !.issues = @ \o _check_file_existence(f, rel_system, doc.files)
                                              \o _check_dependencies(f, file, S, rel_system, doc)
                                              \o _check_dependents(f, file, S, rel_system, doc)])

\* SnapshotValidator.validate: what it returns or that it raised, and whether
\* it opened the database
SnapshotValidator_validate(f, file, S) ==
    LET st == snapshot_loop(f, file, S, _find_systems_with_ctx(f), 1,
                  [issues |-> <<>>, systems_checked |-> 0,
                   opened |-> FALSE, raised |-> FALSE])
    IN  [raised |-> st.raised,
         opened |-> st.opened,
         result |-> ValidatorResult("snapshot-validator", status_of(st.issues),
                                    st.issues, st.systems_checked)]

\* ------------------------------------------------------------------ AdrValidator

\* str(ctx_dir.relative_to(project_root))
rel_ctx(owner) ==
    CASE owner = Root   -> ".ctx"
      [] owner = "api"  -> "api/.ctx"
      [] owner = "cli"  -> "cli/.ctx"
      [] owner = "core" -> "core/.ctx"
      [] owner = "ui"   -> "ui/.ctx"

\* _find_adr_directories: the .ctx directories with a directory adr/, sorted
_find_adr_directories(f) ==
    SelectSeq(find_ctx_directories(f), LAMBDA owner : f.adr[owner].exists)

\* all_adr_files[adr_id] = adr_file: a dict keeps the position of a key it
\* already has and replaces the value
dict_set(d, entry) ==
    IF \E i \in DOMAIN d : d[i].id = entry.id
    THEN [i \in DOMAIN d |-> IF d[i].id = entry.id THEN entry ELSE d[i]]
    ELSE Append(d, entry)

RECURSIVE collect_adr_files(_, _, _, _, _)
collect_adr_files(f, adr_dirs, i, j, d) ==
    IF i > Len(adr_dirs) THEN d
    ELSE IF j > Len(f.adr[adr_dirs[i]].files)
    THEN collect_adr_files(f, adr_dirs, i + 1, 1, d)
    ELSE LET adr_file == f.adr[adr_dirs[i]].files[j]
         IN  collect_adr_files(f, adr_dirs, i, j + 1,
                 dict_set(d, [id |-> adr_file.id, owner |-> adr_dirs[i],
                              adr_file |-> adr_file]))

RECURSIVE count_adr_files(_, _, _)
count_adr_files(f, adr_dirs, i) ==
    IF i > Len(adr_dirs) THEN 0
    ELSE Len(f.adr[adr_dirs[i]].files) + count_adr_files(f, adr_dirs, i + 1)

\* adr_id in all_adr_files
in_adr_files(all_adr_files, adr_id) ==
    \E i \in DOMAIN all_adr_files : all_adr_files[i].id = adr_id

_check_db_registration(file, A, entry) ==
    IF ~db_path_exists(file) THEN <<>>
    ELSE IF query_fails(file) THEN <<>>
    ELSE IF get_adr(A, entry.id) THEN <<>>
    ELSE LET rel_path == entry.adr_file.path
             system_path == rel_ctx(entry.owner)
         IN  <<FixableIssue(system_path, "db_registration", "warning", rel_path,
                            "unregistered_adr",
                            [adr_id |-> entry.id, file_path |-> rel_path,
                             system |-> system_path])>>

_check_superseded_chain(entry, all_adr_files) ==
    IF ~entry.adr_file.readable THEN <<>>
    ELSE IF entry.adr_file.status # "superseded" THEN <<>>
    ELSE IF entry.adr_file.by # ""
    THEN IF in_adr_files(all_adr_files, entry.adr_file.by) THEN <<>>
         ELSE <<ValidationIssue(rel_ctx(entry.owner), "superseded_chain", "warning",
                                entry.id)>>
    ELSE <<ValidationIssue(rel_ctx(entry.owner), "superseded_chain", "warning",
                                entry.id)>>

RECURSIVE check_adr_files(_, _, _, _)
check_adr_files(file, A, all_adr_files, i) ==
    IF i > Len(all_adr_files) THEN <<>>
    ELSE _check_db_registration(file, A, all_adr_files[i])
         \o _check_superseded_chain(all_adr_files[i], all_adr_files)
         \o check_adr_files(file, A, all_adr_files, i + 1)

RECURSIVE orphan_rows(_, _)
orphan_rows(db_adrs, all_adr_files) ==
    IF db_adrs = <<>> THEN <<>>
    ELSE LET adr == Head(db_adrs)
             rest == orphan_rows(Tail(db_adrs), all_adr_files)
         IN  IF in_adr_files(all_adr_files, adr.id) THEN rest
             ELSE <<ValidationIssue(".ctx", "orphan_db_entry", "error",
                                    adr.file_path)>> \o rest

_check_orphan_db_entries(file, A, all_adr_files) ==
    IF ~db_path_exists(file) THEN <<>>
    ELSE IF query_fails(file) THEN <<>>
    ELSE orphan_rows(list_adrs(A), all_adr_files)

\* mutant: the ADR directory of the context is not searched
local_matches_none(f, owner, indexed_id) == {}

\* adr_dir.glob(f"{indexed_id}*.md"): the files whose name begins with the id
local_matches(f, owner, indexed_id) ==
    IF ~f.adr[owner].exists THEN {}
    ELSE {j \in DOMAIN f.adr[owner].files :
             StartsWith(Chars(f.adr[owner].files[j].id), Chars(indexed_id))}

RECURSIVE broken_references(_, _, _, _)
broken_references(f, owner, indexed, all_adr_files) ==
    IF indexed = <<>> THEN <<>>
    ELSE LET indexed_id == Head(indexed)
             rest == broken_references(f, owner, Tail(indexed), all_adr_files)
         IN  IF in_adr_files(all_adr_files, indexed_id) THEN rest
             ELSE IF local_matches(f, owner, indexed_id) # {} THEN rest
             ELSE <<ValidationIssue(rel_ctx(owner), "broken_reference", "error",
                                    "decisions.md")>> \o rest

RECURSIVE orphan_files(_, _, _)
orphan_files(owner, adr_files, indexed) ==
    IF adr_files = <<>> THEN <<>>
    ELSE LET adr_file == Head(adr_files)
             rest == orphan_files(owner, Tail(adr_files), indexed)
         IN  IF InList(adr_file.id, indexed) THEN rest
             ELSE <<ValidationIssue(rel_ctx(owner), "orphan_file", "warning",
                                    adr_file.id)>> \o rest

RECURSIVE _check_decisions_indexes(_, _, _, _)
_check_decisions_indexes(f, ctx_dirs, i, all_adr_files) ==
    IF i > Len(ctx_dirs) THEN <<>>
    ELSE LET owner == ctx_dirs[i]
             doc == f.decisions[owner]
             rest == _check_decisions_indexes(f, ctx_dirs, i + 1, all_adr_files)
         IN  IF doc.state # "ok" THEN rest
             ELSE broken_references(f, owner, doc.indexed, all_adr_files)
                  \o (IF f.adr[owner].exists
                      THEN orphan_files(owner, f.adr[owner].files, doc.indexed)
                      ELSE <<>>)
                  \o rest

\* AdrValidator.validate
AdrValidator_validate(f, file, A) ==
    LET adr_dirs == _find_adr_directories(f)
        all_adr_files == collect_adr_files(f, adr_dirs, 1, 1, <<>>)
        issues == check_adr_files(file, A, all_adr_files, 1)
                  \o _check_orphan_db_entries(file, A, all_adr_files)
                  \o _check_decisions_indexes(f, find_ctx_directories(f), 1, all_adr_files)
    IN  [raised |-> FALSE,
         opened |-> db_path_exists(file),
         result |-> ValidatorResult("adr-validator", status_of(issues), issues,
                                    count_adr_files(f, adr_dirs, 1))]

\* ------------------------------------------------------------------ DebtAuditor

\* Times are counted in hours.
HoursPerDay == 24

DEFAULT_AGE_THRESHOLD_DAYS == 30

\* _find_debt_files: the .ctx directories with a debt.md, sorted
_find_debt_files(f) ==
    SelectSeq(find_ctx_directories(f), LAMBDA owner : f.debt[owner].state # "absent")

\* _audit_debt_item: item.priority is the cell as written, item.dated says
\* whether _parse_date understood the cell Created, item.age is now - created,
\* item.changed counts the referenced files that exist and have commits since
RECURSIVE possibly_resolved(_, _)
possibly_resolved(rel_system, n) ==
    IF n = 0 THEN <<>>
    ELSE <<ValidationIssue(rel_system, "possibly_resolved", "info", "debt.md")>>
         \o possibly_resolved(rel_system, n - 1)

\* mutant: an item is old from the threshold on
_audit_debt_item_from_threshold(item, rel_system) ==
    LET priority == Lower(Chars(item.priority))
        threshold == DEFAULT_AGE_THRESHOLD_DAYS * HoursPerDay
    IN  IF ~item.dated THEN <<>>
        ELSE (IF item.age >= threshold
              THEN IF priority = Chars("high")
                   THEN <<ValidationIssue(rel_system, "age_threshold", "warning", "debt.md")>>
                   ELSE <<ValidationIssue(rel_system, "age_threshold", "info", "debt.md")>>
              ELSE <<>>)
             \o possibly_resolved(rel_system, item.changed)

_audit_debt_item(item, rel_system) ==
    LET priority == Lower(Chars(item.priority))
        threshold == DEFAULT_AGE_THRESHOLD_DAYS * HoursPerDay
    IN  IF ~item.dated THEN <<>>
        ELSE (IF item.age > threshold
              THEN IF priority = Chars("high")
                   THEN <<ValidationIssue(rel_system, "age_threshold", "warning", "debt.md")>>
                   ELSE <<ValidationIssue(rel_system, "age_threshold", "info", "debt.md")>>
              ELSE <<>>)
             \o possibly_resolved(rel_system, item.changed)

RECURSIVE audit_items(_, _)
audit_items(debt_items, rel_system) ==
    IF debt_items = <<>> THEN <<>>
    ELSE _audit_debt_item(Head(debt_items), rel_system)
         \o audit_items(Tail(debt_items), rel_system)

RECURSIVE debt_loop(_, _, _)
debt_loop(f, debt_files, i) ==
    IF i > Len(debt_files) THEN <<>>
    ELSE LET rel_system == debt_files[i]
             doc == f.debt[rel_system]
             rest == debt_loop(f, debt_files, i + 1)
         IN  IF doc.state = "unreadable" THEN rest
             ELSE IF doc.rows = <<>>
             THEN <<ValidationIssue(rel_system, "empty_debt", "info", "debt.md")>> \o rest
             ELSE audit_items(doc.rows, rel_system) \o rest

\* DebtAuditor.validate
DebtAuditor_validate(f) ==
    LET debt_files == _find_debt_files(f)
        issues == debt_loop(f, debt_files, 1)
    IN  [raised |-> FALSE,
         opened |-> FALSE,
         result |-> ValidatorResult("debt-auditor", status_of(issues), issues,
                                    Len(debt_files))]

\* ------------------------------------------------------------------ FreshnessChecker

SNAPSHOT_THRESHOLD_DAYS == 7
DECISIONS_THRESHOLD_DAYS == 1
CONSTRAINTS_THRESHOLD_DAYS == 14
GRAPH_THRESHOLD_DAYS == 7
SEVERE_STALENESS_DAYS == 30

\* Optional[datetime]: None, or a time that carries a timezone (from git log)
\* or none (from stat)
None == [none |-> TRUE, t |-> 0, aware |-> FALSE, raised |-> FALSE]

\* mtime > latest_mtime raises TypeError between a datetime with and one
\* without a timezone
RECURSIVE latest_of(_, _, _)
latest_of(mtimes, i, latest) ==
    IF i > Len(mtimes) THEN latest
    ELSE LET mtime == mtimes[i] IN
         IF mtime.none THEN latest_of(mtimes, i + 1, latest)
         ELSE IF latest.none
         THEN latest_of(mtimes, i + 1, [none |-> FALSE, t |-> mtime.t,
                                        aware |-> mtime.aware, raised |-> FALSE])
         ELSE IF mtime.aware # latest.aware THEN [latest EXCEPT !.raised = TRUE]
         ELSE IF mtime.t > latest.t
         THEN latest_of(mtimes, i + 1, [latest EXCEPT !.t = mtime.t])
         ELSE latest_of(mtimes, i + 1, latest)

\* _get_latest_source_mtime: f.sources lists the source files of a system in
\* the order of rglob, each with the time _get_file_mtime finds for it
_get_latest_source_mtime(f, system_path) ==
    latest_of([i \in DOMAIN f.sources[system_path] |->
                  [none |-> FALSE, t |-> f.sources[system_path][i].t,
                   aware |-> f.sources[system_path][i].aware]], 1, None)

\* mutant: a document is stale from the threshold on
_check_doc_freshness_from_threshold(doc, source_mtime, threshold_days, rel_system, doc_name) ==
    IF doc.state = "absent" THEN <<>>
    ELSE LET staleness == source_mtime.t - doc.t IN
         IF staleness >= threshold_days * HoursPerDay
         THEN IF staleness > SEVERE_STALENESS_DAYS * HoursPerDay
              THEN <<ValidationIssue(rel_system, "staleness", "error", doc_name)>>
              ELSE <<ValidationIssue(rel_system, "staleness", "warning", doc_name)>>
         ELSE <<>>

_check_doc_freshness(doc, source_mtime, threshold_days, rel_system, doc_name) ==
    IF doc.state = "absent" THEN <<>>
    ELSE LET staleness == source_mtime.t - doc.t IN
         IF staleness > threshold_days * HoursPerDay
         THEN IF staleness > SEVERE_STALENESS_DAYS * HoursPerDay
              THEN <<ValidationIssue(rel_system, "staleness", "error", doc_name)>>
              ELSE <<ValidationIssue(rel_system, "staleness", "warning", doc_name)>>
         ELSE <<>>

\* for adr_file in adr_dir.glob("*.md"): ... break
_check_decisions_freshness(f, rel_system) ==
    LET doc == f.decisions[rel_system]
        dir == f.adr[rel_system]
    IN  IF doc.state = "absent" THEN <<>>
        ELSE IF dir.exists /\ \E j \in DOMAIN dir.files :
                    dir.files[j].t - doc.t > DECISIONS_THRESHOLD_DAYS * HoursPerDay
        THEN <<ValidationIssue(rel_system, "decisions_sync", "warning", "decisions.md")>>
        ELSE <<>>

\* the latest source time of each system, until one of them raises
RECURSIVE system_mtimes(_, _, _)
system_mtimes(f, sys, i) ==
    IF i > Len(sys) THEN <<>>
    ELSE LET m == _get_latest_source_mtime(f, sys[i]) IN
         IF m.raised THEN <<m>> ELSE <<m>> \o system_mtimes(f, sys, i + 1)

\* _check_graph_freshness: [raised, issues]
_check_graph_freshness(f) ==
    IF f.graph.state = "absent" THEN [raised |-> FALSE, issues |-> <<>>]
    ELSE LET ms == system_mtimes(f, _find_systems_with_ctx(f), 1)
             latest_system_mtime == latest_of(ms, 1, None)
         IN  IF \E i \in DOMAIN ms : ms[i].raised
             THEN [raised |-> TRUE, issues |-> <<>>]
             ELSE IF latest_system_mtime.raised
             THEN [raised |-> TRUE, issues |-> <<>>]
             ELSE IF latest_system_mtime.none
             THEN [raised |-> FALSE, issues |-> <<>>]
             ELSE IF latest_system_mtime.t - f.graph.t > GRAPH_THRESHOLD_DAYS * HoursPerDay
             THEN [raised |-> FALSE,
                   issues |-> <<FixableIssue(".ctx", "graph_staleness", "warning",
                                             "graph.json", "stale_graph", NoParams)>>]
             ELSE [raised |-> FALSE, issues |-> <<>>]

\* for system_path in systems: ... (the loop of FreshnessChecker.validate)
RECURSIVE freshness_loop(_, _, _, _)
freshness_loop(f, sys, i, st) ==
    IF i > Len(sys) THEN st
    ELSE LET rel_system == sys[i]
             latest_source_mtime == _get_latest_source_mtime(f, rel_system)
         IN  IF latest_source_mtime.raised
             THEN [st EXCEPT !.raised = TRUE, !.systems_checked = @ + 1]
             ELSE IF latest_source_mtime.none
             THEN freshness_loop(f, sys, i + 1, [st EXCEPT !.systems_checked = @ + 1])
             ELSE freshness_loop(f, sys, i + 1,
                      [st EXCEPT !.systems_checked = @ + 1,
                                 !.issues = @
                          \o _check_doc_freshness(f.snapshot[rel_system], latest_source_mtime,
                                 SNAPSHOT_THRESHOLD_DAYS, rel_system, "snapshot.md")
                          \o _check_doc_freshness(f.constraints[rel_system], latest_source_mtime,
                                 CONSTRAINTS_THRESHOLD_DAYS, rel_system, "constraints.md")
                          \o _check_decisions_freshness(f, rel_system)])

\* FreshnessChecker.validate
FreshnessChecker_validate(f) ==
    LET graph == _check_graph_freshness(f)
        st == IF graph.raised
              THEN [issues |-> <<>>, systems_checked |-> 0, raised |-> TRUE]
              ELSE freshness_loop(f, _find_systems_with_ctx(f), 1,
                       [issues |-> graph.issues, systems_checked |-> 0, raised |-> FALSE])
    IN  [raised |-> st.raised,
         opened |-> FALSE,
         result |-> ValidatorResult("freshness-checker", status_of(st.issues),
                                    st.issues, st.systems_checked)]

\* ------------------------------------------------------------------ ValidationRunner

\* The keys of ValidationRunner.VALIDATORS.
VALIDATORS == {"snapshot", "adr", "debt", "freshness"}

DEFAULT_VALIDATORS == <<"snapshot", "adr", "debt", "freshness">>

DEEP_VALIDATORS == <<>>

\* validator.validate() of the validator registered under a name
validate(name, f, file, S, A) ==
    CASE name = "snapshot"  -> SnapshotValidator_validate(f, file, S)
      [] name = "adr"       -> AdrValidator_validate(f, file, A)
      [] name = "debt"      -> DebtAuditor_validate(f)
      [] name = "freshness" -> FreshnessChecker_validate(f)

\* The result the runner makes up for a validator that raised.
error_result(name) ==
    ValidatorResult(name, "fail",
                    <<ValidationIssue("", "validator_error", "error", "")>>, 0)

\* mutant: the exception is swallowed and the validator leaves no result
on_exception_pass(results, name) == results

\* except Exception as e: results.append(ValidatorResult(...))
on_exception(results, name) == Append(results, error_result(name))

\* What running a validator does to the project: nothing, except where it
\* opened a connection to the database.
validate_effects(outcome) ==
    /\ db_file' = IF outcome.opened
                  THEN ContextDB_open(db_file, FALSE, fs.ctx) ELSE db_file
    /\ fs' = IF outcome.opened
             THEN [fs EXCEPT !.ctx = ContextDB_open_ctx(db_file, FALSE, @)] ELSE fs
    /\ UNCHANGED <<systems, edges, adrs, last, tools>>

RECURSIVE all_issues_of(_)
\* for result in results: all_issues.extend(result.issues)
all_issues_of(results) ==
    IF results = <<>> THEN <<>>
    ELSE Head(results).issues \o all_issues_of(Tail(results))

\* mutant: all(...) in place of any(...)
has_failures_all(results) == \A i \in DOMAIN results : results[i].status = "fail"

\* any(result.status == "fail" for result in results)
has_failures(results) == \E i \in DOMAIN results : results[i].status = "fail"

AggregatedResult(status, validators_run, total_issues, errors, warnings, infos, results, all_issues) ==
    [status |-> status, validators_run |-> validators_run,
     total_issues |-> total_issues, errors |-> errors, warnings |-> warnings,
     infos |-> infos, results |-> results, all_issues |-> all_issues]

_aggregate_results(results) ==
    LET all_issues == all_issues_of(results)
        errors == Cardinality({i \in DOMAIN all_issues :
                                  all_issues[i].severity = "error"})
        warnings == Cardinality({i \in DOMAIN all_issues :
                                    all_issues[i].severity = "warning"})
        infos == Cardinality({i \in DOMAIN all_issues :
                                 all_issues[i].severity \notin {"error", "warning"}})
    IN  AggregatedResult(IF has_failures(results) THEN "fail" ELSE "pass",
                         Len(results), Len(all_issues), errors, warnings, infos,
                         results, all_issues)

\* mutant: a validator that could not be created is submitted all the same
submit_unchecked(valid_names, faulty) ==
    [i \in DOMAIN valid_names |-> [state |-> "pending"]]

\* the futures of _run_parallel: none for a validator that could not be
\* created, whose error result is appended at once
submit(valid_names, faulty) ==
    [i \in DOMAIN valid_names |->
        [state |-> IF valid_names[i] \in faulty THEN "failed" ELSE "pending"]]

RECURSIVE creation_failures(_, _, _)
creation_failures(valid_names, faulty, results) ==
    IF valid_names = <<>> THEN results
    ELSE creation_failures(Tail(valid_names), faulty,
             IF Head(valid_names) \in faulty
             THEN on_exception(results, Head(valid_names)) ELSE results)

\* run_validators up to the point where the validators run
start(op, validator_names, parallel, faulty) ==
    LET valid_names == SelectSeq(validator_names, LAMBDA name : name \in VALIDATORS)
        call == [op |-> op, validator_names |-> validator_names,
                 valid_names |-> valid_names, parallel |-> parallel,
                 faulty |-> faulty, i |-> 1, futures |-> <<>>, results |-> <<>>,
                 before |-> [fs |-> fs, db_file |-> db_file]]
    IN  IF valid_names = <<>>
        THEN [pc |-> "done",
              returned |-> AggregatedResult("pass", 0, 0, 0, 0, 0, <<>>, <<>>)] @@ call
        ELSE IF parallel /\ Len(valid_names) > 1
        THEN [pc |-> "parallel",
              futures |-> submit(valid_names, faulty),
              results |-> creation_failures(valid_names, faulty, <<>>)] @@ call
        ELSE [pc |-> "sequential"] @@ call

\* ------------------------------------------------------------------ runner calls

\* The time of the last change to the sources of a system, in hours.
Recent == 100 * HoursPerDay

UnreadableSnapshot == [NoSnapshot EXCEPT !.state = "unreadable", !.t = Recent]

\* A snapshot.md in step with the code: a week and a day behind the sources.
CleanSnapshot ==
    [state |-> "ok", t |-> Recent - 8 * HoursPerDay, files |-> <<"main.py">>,
     dependencies |-> <<"x (External)", "core">>, dependents |-> <<"", "api">>]

\* A snapshot.md the code has left behind.
DriftedSnapshot ==
    [state |-> "ok", t |-> Recent - 31 * HoursPerDay, files |-> <<"main.py", "gone.py">>,
     dependencies |-> <<"lost">>, dependents |-> <<"a.ts">>]

SupersededAdr ==
    [id |-> "ADR-1", path |-> "api/.ctx/adr/ADR-1.md", t |-> Recent,
     status |-> "superseded", by |-> "ADR-2", readable |-> TRUE]

OldDebt == [priority |-> "High", dated |-> TRUE, age |-> 31 * HoursPerDay, changed |-> 1]

\* validator_names of the calls; "bogus" is no key of VALIDATORS.
CalledNames ==
    {<<>>, <<"bogus">>, <<"snapshot">>, <<"debt", "bogus", "debt">>,
     <<"freshness", "adr">>}

\* The validators whose class cannot be instantiated in a call.
Faulty == {{}, {"debt"}}

\* A project with one documented system, api, and one registered system, core.
InitRunner ==
    /\ systems = {"core"}
    /\ edges = {}
    /\ last = [op |-> "init"]
    /\ adrs \in {{}, {[id |-> "ADR-2", file_path |-> "ADR-2"]}}
    /\ db_file \in {"absent", "empty", "ok"}
    /\ run = NoRun
    /\ ToolsIdle
    /\ \E ctx \in {{Root, "api"}, {"api"}},
          snapshot \in {NoSnapshot, UnreadableSnapshot, CleanSnapshot, DriftedSnapshot},
          adr \in {NoAdrDir, [exists |-> TRUE, files |-> <<SupersededAdr>>]},
          debt \in {[state |-> "ok", rows |-> <<>>],
                    [state |-> "ok", rows |-> <<OldDebt>>]},
          sources \in {<<>>, <<[t |-> Recent, aware |-> TRUE]>>,
                       <<[t |-> Recent, aware |-> TRUE], [t |-> Recent, aware |-> FALSE]>>},
          graph \in {NoDoc, [state |-> "ok", t |-> Recent - 8 * HoursPerDay]} :
        /\ Root \notin ctx => db_file = "absent" /\ graph = NoDoc
        /\ fs = [EmptyTree EXCEPT
                    !.ctx = ctx,
                    !.dirs = {"api"},
                    !.files["api"] = {"main.py"},
                    !.sources["api"] = sources,
                    !.snapshot["api"] = snapshot,
                    !.decisions["api"] = [state |-> "ok", t |-> Recent - 2 * HoursPerDay,
                                          indexed |-> <<"ADR-1">>],
                    !.debt["api"] = debt,
                    !.adr["api"] = adr,
                    !.graph = graph]

run_validators ==
    /\ run.pc = "idle"
    /\ \E validator_names \in CalledNames, parallel \in BOOLEAN, faulty \in Faulty :
           run' = start("run_validators", validator_names, parallel, faulty)
    /\ UNCHANGED <<systems, edges, last, adrs, db_file, fs, tools>>

run_all ==
    /\ run.pc = "idle"
    /\ \E deep \in BOOLEAN, parallel \in BOOLEAN, faulty \in Faulty :
           run' = start("run_all",
                        DEFAULT_VALIDATORS \o (IF deep THEN DEEP_VALIDATORS ELSE <<>>),
                        parallel, faulty)
    /\ UNCHANGED <<systems, edges, last, adrs, db_file, fs, tools>>

\* run_single has no try: what the validator raises reaches the caller
run_single ==
    /\ run.pc = "idle"
    /\ \E validator_name \in VALIDATORS \cup {"bogus"}, faulty \in Faulty :
           LET call == [pc |-> "done", op |-> "run_single",
                        validator_name |-> validator_name, faulty |-> faulty]
               outcome == validate(validator_name, fs, db_file, systems, adrs)
           IN  IF validator_name \notin VALIDATORS
               THEN /\ run' = call @@ [raised |-> FALSE, results |-> <<>>]
                    /\ UNCHANGED <<systems, edges, last, adrs, db_file, fs, tools>>
               ELSE IF validator_name \in faulty
               THEN /\ run' = call @@ [raised |-> TRUE, results |-> <<>>]
                    /\ UNCHANGED <<systems, edges, last, adrs, db_file, fs, tools>>
               ELSE /\ run' = call @@ [raised |-> outcome.raised,
                                       results |-> IF outcome.raised THEN <<>>
                                                   ELSE <<outcome.result>>]
                    /\ validate_effects(outcome)

\* for name in validator_names: a name is left
more_names == run.pc = "sequential" /\ run.i <= Len(run.valid_names)

\* a submitted validator has not run yet; a future is done and not yet seen by
\* as_completed
pending(i) == run.pc = "parallel" /\ run.futures[i].state = "pending"

finished(i) == run.pc = "parallel" /\ run.futures[i].state = "finished"

\* both loops of the call are through
loops_done ==
    \/ run.pc = "sequential" /\ run.i > Len(run.valid_names)
    \/ run.pc = "parallel"
       /\ \A i \in DOMAIN run.futures : run.futures[i].state \in {"failed", "collected"}

\* one turn of the loop of _run_sequential
_run_sequential ==
    /\ more_names
    /\ LET name == run.valid_names[run.i]
           outcome == validate(name, fs, db_file, systems, adrs)
       IN  IF name \in run.faulty
           THEN /\ run' = [run EXCEPT !.i = @ + 1, !.results = on_exception(@, name)]
                /\ UNCHANGED <<systems, edges, last, adrs, db_file, fs, tools>>
           ELSE /\ run' = [run EXCEPT !.i = @ + 1,
                               !.results = IF outcome.raised THEN on_exception(@, name)
                                           ELSE Append(@, outcome.result)]
                /\ validate_effects(outcome)

\* a thread of the executor runs validator.validate to its end
worker ==
    /\ run.pc = "parallel"
    /\ \E i \in DOMAIN run.futures :
           /\ pending(i)
           /\ LET outcome == validate(run.valid_names[i], fs, db_file, systems, adrs)
              IN  /\ run' = [run EXCEPT !.futures[i] =
                                 [state |-> "finished", raised |-> outcome.raised,
                                  result |-> outcome.result]]
                  /\ validate_effects(outcome)

\* for future in as_completed(future_to_name): one finished future, any of them
as_completed ==
    /\ run.pc = "parallel"
    /\ \E i \in DOMAIN run.futures :
           /\ finished(i)
           /\ run' = [run EXCEPT
                         !.futures[i] = [state |-> "collected"],
                         !.results = IF run.futures[i].raised
                                     THEN on_exception(@, run.valid_names[i])
                                     ELSE Append(@, run.futures[i].result)]
    /\ UNCHANGED <<systems, edges, last, adrs, db_file, fs, tools>>

\* return self._aggregate_results(results)
return_aggregate ==
    /\ loops_done
    /\ run' = [pc |-> "done", returned |-> _aggregate_results(run.results)] @@ run
    /\ UNCHANGED <<systems, edges, last, adrs, db_file, fs, tools>>

NextRunner ==
    \/ run_validators
    \/ run_all
    \/ run_single
    \/ _run_sequential
    \/ worker
    \/ as_completed
    \/ return_aggregate

SpecRunner == InitRunner /\ [][NextRunner]_vars

\* ------------------------------------------------------------------ runner claims

\* A call of run_validators or run_all has returned.
BatchReturned == run.pc = "done" /\ run.op \in {"run_validators", "run_all"}

\* What the validator registered under a name does on the project as it is.
outcome_of(name) == validate(name, fs, db_file, systems, adrs)

\* The construction of the validator or its validate() raises.
Raises(name) == name \in run.faulty \/ outcome_of(name).raised

\* The result a validator has to leave in the batch.
Contributes(name, r) ==
    IF Raises(name)
    THEN /\ r.name = name
         /\ r.status = "fail"
         /\ Len(r.issues) = 1
         /\ r.issues[1].check = "validator_error"
         /\ r.issues[1].severity = "error"
    ELSE r = outcome_of(name).result

\* The call is under way; it has a step to take.
Running == run.pc \in {"sequential", "parallel"}

CanStep ==
    \/ more_names
    \/ \E i \in DOMAIN run.futures : pending(i) \/ finished(i)
    \/ loops_done

\* The steps a call has left before it returns: one to return, one for each
\* name of the sequential loop, two for a pending and one for a finished future.
StepsLeft ==
    CASE run.pc = "sequential" -> 2 + Len(run.valid_names) - run.i
      [] run.pc = "parallel" ->
             1 + 2 * Cardinality({i \in DOMAIN run.futures : pending(i)})
               + Cardinality({i \in DOMAIN run.futures : finished(i)})
      [] OTHER -> 0

\* The call runs its validators one after the other.
Sequential == ~run.parallel \/ Len(run.valid_names) <= 1

\* C7: in run_validators, parallel and sequential, a validator whose
\* construction or validate() raises contributes a result with status "fail"
\* and exactly one issue, check "validator_error", severity "error"; the other
\* validators still run and contribute their own results; the batch always
\* returns (while it runs it has a step to take, and every step leaves fewer
\* steps to take), with as many results as known names were selected.
C7_ValidatorErrorIsolated ==
    /\ [](/\ Running => CanStep
          /\ BatchReturned =>
                 /\ run.returned.results = run.results
                 /\ Len(run.results) =
                        Cardinality({i \in DOMAIN run.validator_names :
                                        run.validator_names[i] \in VALIDATORS})
                 /\ \E order \in Permutations_of(DOMAIN run.valid_names) :
                        /\ \A i \in DOMAIN run.valid_names :
                               Contributes(run.valid_names[i], run.results[order[i]])
                        /\ Sequential => \A i \in DOMAIN order : order[i] = i)
    /\ [][Running => StepsLeft' < StepsLeft]_vars

\* C7 witness: a parallel run_all has returned four results, although the
\* DebtAuditor could not be created and SnapshotValidator.validate raised.
C7_Witness ==
    /\ BatchReturned
    /\ run.op = "run_all"
    /\ run.parallel
    /\ run.faulty = {"debt"}
    /\ outcome_of("snapshot").raised
    /\ ~outcome_of("adr").raised
    /\ Len(run.results) = 4
    /\ \E i \in DOMAIN run.results : run.results[i].name = "adr-validator"

\* the number of issues of the first k results
RECURSIVE IssuesBefore(_, _)
IssuesBefore(results, k) ==
    IF k = 0 THEN 0 ELSE Len(results[k].issues) + IssuesBefore(results, k - 1)

\* C8: the aggregated status is "fail" exactly when some result has status
\* "fail"; all_issues is the concatenation of the results' issues in result
\* order; total_issues = errors + warnings + infos = len(all_issues);
\* validators_run is the number of results; a call that selects no known
\* name passes with zero counts.
C8_Aggregation ==
    BatchReturned =>
        LET a == run.returned IN
        /\ a.status \in {"pass", "fail"}
        /\ a.status = "fail" <=> \E i \in DOMAIN a.results : a.results[i].status = "fail"
        /\ Len(a.all_issues) = IssuesBefore(a.results, Len(a.results))
        /\ \A k \in DOMAIN a.results : \A j \in DOMAIN a.results[k].issues :
               a.all_issues[IssuesBefore(a.results, k - 1) + j] = a.results[k].issues[j]
        /\ a.total_issues = a.errors + a.warnings + a.infos
        /\ a.total_issues = Len(a.all_issues)
        /\ a.validators_run = Len(a.results)
        /\ (\A i \in DOMAIN run.validator_names : run.validator_names[i] \notin VALIDATORS)
               => /\ a.status = "pass"
                  /\ a.validators_run = 0 /\ a.total_issues = 0
                  /\ a.errors = 0 /\ a.warnings = 0 /\ a.infos = 0
                  /\ a.results = <<>> /\ a.all_issues = <<>>

\* C8 witness: a batch that fails although one of its validators passes, with
\* issues of all three severities.
C8_Witness ==
    /\ BatchReturned
    /\ run.returned.status = "fail"
    /\ \E i \in DOMAIN run.results : run.results[i].status = "pass"
    /\ run.returned.errors > 0
    /\ run.returned.warnings > 0
    /\ run.returned.infos > 0
    /\ run.returned.validators_run = 4

\* status is "fail" exactly when an issue has severity "error"
FailsOnErrors(r) ==
    r.status = "fail" <=> \E j \in DOMAIN r.issues : r.issues[j].severity = "error"

\* C9: every ValidatorResult of SnapshotValidator, AdrValidator, DebtAuditor,
\* FreshnessChecker or of the runner's error path has status "fail" if and
\* only if one of its issues has severity "error".
C9_StatusFromErrors ==
    /\ \A name \in VALIDATORS :
           LET outcome == outcome_of(name)
               r == outcome.result
           IN  ~outcome.raised => FailsOnErrors(r)
    /\ run.pc # "idle" => \A i \in DOMAIN run.results : FailsOnErrors(run.results[i])
    /\ run.pc = "parallel" =>
           \A i \in DOMAIN run.futures :
               run.futures[i].state = "finished" /\ ~run.futures[i].raised
                   => FailsOnErrors(run.futures[i].result)

\* C9 witness: a batch with a result that passes with warnings, one that fails
\* on an error it found, and one made up for a validator that raised.
C9_Witness ==
    /\ BatchReturned
    /\ \E i \in DOMAIN run.results :
           /\ run.results[i].status = "pass"
           /\ \E j \in DOMAIN run.results[i].issues :
                  run.results[i].issues[j].severity = "warning"
    /\ \E i \in DOMAIN run.results :
           /\ run.results[i].status = "fail"
           /\ run.results[i].issues[1].check # "validator_error"
    /\ \E i \in DOMAIN run.results :
           run.results[i].issues = <<ValidationIssue("", "validator_error", "error", "")>>

\* C10: no step of a validator, run by run_all, run_validators or run_single,
\* changes the store or the project tree; a database file that does not exist
\* is not created.
C10_ValidatorsReadOnly ==
    [][/\ systems' = systems
       /\ edges' = edges
       /\ adrs' = adrs
       /\ db_file' = db_file
       /\ fs' = fs]_vars

\* C10 witness: all four validators have run on a project whose database file
\* does not exist, with references and ADR files to look up in it.
C10_Witness ==
    /\ BatchReturned
    /\ Len(run.results) = 4
    /\ run.faulty = {}
    /\ db_file = "absent"
    /\ Root \in fs.ctx
    /\ fs.snapshot["api"] = CleanSnapshot
    /\ fs.adr["api"].exists
    /\ \A i \in DOMAIN run.results :
           run.results[i].issues # <<ValidationIssue("", "validator_error", "error", "")>>

\* ------------------------------------------------------------------ fixers

\* The time of the writes of the fixers.
FixTime == Recent + 1

FixResult(success, message, files_modified) ==
    [success |-> success, message |-> message, files_modified |-> files_modified,
     files_deleted |-> <<>>]

\* What a call of fix leaves: the exception it raised or the FixResult it
\* returned, and the project tree and the table adrs afterwards.
returns(result, f, A) == [raised |-> "none", result |-> result, fs |-> f, adrs |-> A]

raises(exception, f, A) ==
    [raised |-> exception, result |-> [none |-> TRUE], fs |-> f, adrs |-> A]

\* issue.fix_params.get(key), read for its truth value: None and "" alike
fix_params_get(issue, key) ==
    IF key \in DOMAIN issue.fix_params THEN issue.fix_params[key] ELSE ""

\* str(path.relative_to(self.project_root)) of a document of a context directory
ctx_file(system, name) == system \o "/.ctx/" \o name

\* get_template: the exception it lets out, "none" when it returns the text.
\* It turns FileNotFoundError, AttributeError and TypeError into
\* FileNotFoundError; any other OSError of read_text passes through.
get_template(f) ==
    CASE f.templates = "ok"         -> "none"
      [] f.templates = "missing"    -> "FileNotFoundError"
      [] f.templates = "unreadable" -> "PermissionError"

\* load_config: the exception it lets out.  LctxConfig._validate raises
\* ValueError; _load_from_pyproject catches TOMLDecodeError and OSError only,
\* so tool_section.get on a scalar raises AttributeError.
load_config(f) ==
    CASE f.pyproject = "absent"      -> "none"
      [] f.pyproject = "db_name_txt" -> "ValueError"
      [] f.pyproject = "tool_scalar" -> "AttributeError"

\* The documents render_template makes of the packaged templates.
rendered(template_name) ==
    CASE template_name = "snapshot"    -> [NoSnapshot EXCEPT !.state = "ok", !.t = FixTime]
      [] template_name = "constraints" -> [NoDoc EXCEPT !.state = "ok", !.t = FixTime]
      [] template_name = "decisions"   -> [NoDecisions EXCEPT !.state = "ok", !.t = FixTime]
      [] template_name = "debt"        -> [NoDebt EXCEPT !.state = "ok"]

\* path.exists() of <system>/.ctx/<template_name>.md
template_path_exists(f, system, template_name) ==
    /\ system \in f.ctx
    /\ CASE template_name = "snapshot"    -> f.snapshot[system].state # "absent"
         [] template_name = "constraints" -> f.constraints[system].state # "absent"
         [] template_name = "decisions"   -> f.decisions[system].state # "absent"
         [] template_name = "debt"        -> f.debt[system].state # "absent"

\* path.write_text(content) of <system>/.ctx/<template_name>.md
write_text(f, system, template_name) ==
    CASE template_name = "snapshot" ->
             [f EXCEPT !.snapshot[system] = rendered("snapshot")]
      [] template_name = "constraints" ->
             [f EXCEPT !.constraints[system] = rendered("constraints")]
      [] template_name = "decisions" ->
             [f EXCEPT !.decisions[system] = rendered("decisions")]
      [] template_name = "debt" ->
             [f EXCEPT !.debt[system] = rendered("debt")]

\* mutant: the template is written over whatever is there
SnapshotFixer_fix_overwrite(f, A, issue) ==
    IF issue.system \notin f.ctx
    THEN returns(FixResult(FALSE, ".ctx directory does not exist", <<>>), f, A)
    ELSE returns(FixResult(TRUE, "Created snapshot.md from template",
                           <<ctx_file(issue.system, "snapshot.md")>>),
                 write_text(f, issue.system, "snapshot"), A)

\* SnapshotFixer.fix
SnapshotFixer_fix(f, A, issue) ==
    LET system == issue.system
        rel_path == ctx_file(system, "snapshot.md")
    IN  IF template_path_exists(f, system, "snapshot")
        THEN returns(FixResult(TRUE, "snapshot.md already exists", <<>>), f, A)
        ELSE IF system \notin f.ctx
        THEN returns(FixResult(FALSE, ".ctx directory does not exist", <<>>), f, A)
        ELSE IF get_template(f) = "FileNotFoundError"
        THEN returns(FixResult(FALSE, "Failed to render snapshot template", <<>>), f, A)
        ELSE IF get_template(f) # "none"
        THEN raises(get_template(f), f, A)
        ELSE IF f.read_only
        THEN returns(FixResult(FALSE, "Failed to write snapshot.md", <<>>), f, A)
        ELSE returns(FixResult(TRUE, "Created snapshot.md from template", <<rel_path>>),
                     write_text(f, system, "snapshot"), A)

\* GraphFixer.fix; keys is the order of the rows of list_systems in the dict
GraphFixer_fix(f, file, S, E, A, keys) ==
    IF file = "absent"
    THEN returns(FixResult(FALSE, "Knowledge database not found", <<>>), f, A)
    ELSE IF Root \notin f.ctx
    THEN returns(FixResult(FALSE, ".ctx directory does not exist", <<>>), f, A)
    ELSE IF query_fails(file)
    THEN returns(FixResult(FALSE, "Failed to generate graph from database", <<>>), f, A)
    ELSE IF f.read_only
    THEN returns(FixResult(FALSE, "Failed to write graph.json", <<>>), f, A)
    ELSE returns(FixResult(TRUE, "Regenerated graph.json", <<".ctx/graph.json">>),
                 [f EXCEPT !.graph = [state |-> "ok",
                                      t |-> IF "graph.json" \in f.committed
                                            THEN f.graph.t ELSE FixTime],
                           !.graph_json = generate_graph(S, E, keys)], A)

SYSTEM_TEMPLATES == <<"snapshot", "constraints", "decisions", "debt">>

\* scaffold_system_ctx: the tree with <system>/.ctx, its four documents and an
\* empty directory adr/
scaffold_system_ctx(f, system) ==
    [f EXCEPT !.ctx = @ \cup {system},
              !.snapshot[system] = rendered("snapshot"),
              !.constraints[system] = rendered("constraints"),
              !.decisions[system] = rendered("decisions"),
              !.debt[system] = rendered("debt"),
              !.adr[system] = [exists |-> TRUE, files |-> <<>>]]

\* mutant: a scaffold that fails leaves its directory behind
MissingCtxDirFixer_fix_no_cleanup(f, A, issue) ==
    LET system == issue.system
        made == [f EXCEPT !.dirs = @ \cup {system}]
    IN  IF system \in f.ctx
        THEN returns(FixResult(TRUE, ".ctx directory already exists", <<>>), f, A)
        ELSE IF system \notin f.dirs /\ f.read_only
        THEN returns(FixResult(FALSE, "Failed to create system directory", <<>>), f, A)
        ELSE IF load_config(f) = "ValueError"
        THEN returns(FixResult(FALSE, "Failed to load config", <<>>), made, A)
        ELSE IF load_config(f) # "none"
        THEN raises(load_config(f), made, A)
        ELSE IF f.read_only \/ get_template(f) # "none"
        THEN returns(FixResult(FALSE, "Failed to scaffold .ctx directory", <<>>),
                     [made EXCEPT !.ctx = @ \cup {system}], A)
        ELSE LET names == sorted(<<"snapshot.md", "constraints.md", "decisions.md",
                                   "debt.md">>)
             IN  returns(FixResult(TRUE, "Created .ctx directory",
                             [i \in DOMAIN names |-> ctx_file(system, names[i])]),
                         scaffold_system_ctx(made, system), A)

\* MissingCtxDirFixer.fix
MissingCtxDirFixer_fix(f, A, issue) ==
    LET system == issue.system
        made == [f EXCEPT !.dirs = @ \cup {system}]
    IN  IF system \in f.ctx
        THEN returns(FixResult(TRUE, ".ctx directory already exists", <<>>), f, A)
        ELSE IF system \notin f.dirs /\ f.read_only
        THEN returns(FixResult(FALSE, "Failed to create system directory", <<>>), f, A)
        ELSE IF load_config(f) = "ValueError"
        THEN returns(FixResult(FALSE, "Failed to load config", <<>>), made, A)
        ELSE IF load_config(f) # "none"
        THEN raises(load_config(f), made, A)
        ELSE IF f.read_only \/ get_template(f) # "none"
        THEN returns(FixResult(FALSE, "Failed to scaffold .ctx directory", <<>>), made, A)
        ELSE LET names == sorted(<<"snapshot.md", "constraints.md", "decisions.md",
                                   "debt.md">>)
             IN  returns(FixResult(TRUE, "Created .ctx directory",
                             [i \in DOMAIN names |-> ctx_file(system, names[i])]),
                         scaffold_system_ctx(made, system), A)

VALID_TEMPLATES == {"constraints", "decisions", "debt"}

\* MissingTemplateFileFixer.fix
MissingTemplateFileFixer_fix(f, A, issue) ==
    LET template_name == fix_params_get(issue, "template_name")
        system == issue.system
        rel_path == ctx_file(system, template_name \o ".md")
    IN  IF template_name = ""
        THEN returns(FixResult(FALSE, "template_name is required in fix_params", <<>>), f, A)
        ELSE IF template_name \notin VALID_TEMPLATES
        THEN returns(FixResult(FALSE, "Invalid template_name", <<>>), f, A)
        ELSE IF template_path_exists(f, system, template_name)
        THEN returns(FixResult(TRUE, "already exists", <<>>), f, A)
        ELSE IF system \notin f.ctx
        THEN returns(FixResult(FALSE, ".ctx directory does not exist", <<>>), f, A)
        ELSE IF get_template(f) = "FileNotFoundError"
        THEN returns(FixResult(FALSE, "Failed to render template", <<>>), f, A)
        ELSE IF get_template(f) # "none"
        THEN raises(get_template(f), f, A)
        ELSE IF f.read_only
        THEN returns(FixResult(FALSE, "Failed to write", <<>>), f, A)
        ELSE returns(FixResult(TRUE, "Created from template", <<rel_path>>),
                     write_text(f, system, template_name), A)

\* The ADR files of the tree whose path relative to the root is file_path.
adr_files_at(f, file_path) ==
    UNION {{a \in Range(f.adr[owner].files) : a.path = file_path} :
              owner \in {o \in f.ctx : f.adr[o].exists}}

\* self._resolve_path(file_path).exists()
path_exists(f, file_path) == file_path \in f.loose \/ adr_files_at(f, file_path) # {}

\* The statuses table adrs accepts (create_adr: "sqlite3.IntegrityError: If ADR
\* already exists or status is invalid").
ADR_STATUSES == {"proposed", "accepted", "deprecated", "superseded"}

\* create_adr: TRUE when it raises ValueError or sqlite3.IntegrityError
create_adr_raises(A, id, status, file_path) ==
    \/ \A i \in DOMAIN Chars(id) : Chars(id)[i] = 32
    \/ \A i \in DOMAIN Chars(file_path) : Chars(file_path)[i] = 32
    \/ Contains(Chars(file_path), <<46, 46>>)
    \/ get_adr(A, id)
    \/ status \notin ADR_STATUSES

\* AdrFixer.fix
AdrFixer_fix(f, file, A, issue) ==
    LET adr_id == fix_params_get(issue, "adr_id")
        file_path == fix_params_get(issue, "file_path")
        found == adr_files_at(f, file_path)
        status == IF found = {} THEN "proposed" ELSE (CHOOSE a \in found : TRUE).status
    IN  IF adr_id = ""
        THEN returns(FixResult(FALSE, "adr_id is required in fix_params", <<>>), f, A)
        ELSE IF file_path = ""
        THEN returns(FixResult(FALSE, "file_path is required in fix_params", <<>>), f, A)
        ELSE IF file = "absent"
        THEN returns(FixResult(FALSE, "Database not found", <<>>), f, A)
        ELSE IF ~path_exists(f, file_path)
        THEN returns(FixResult(FALSE, "ADR file not found", <<>>), f, A)
        ELSE IF query_fails(file)
        THEN returns(FixResult(FALSE, "Failed to check existing ADR", <<>>), f, A)
        ELSE IF get_adr(A, adr_id)
        THEN returns(FixResult(TRUE, "ADR is already registered in database", <<>>), f, A)
        ELSE IF \E a \in found : ~a.readable
        THEN returns(FixResult(FALSE, "Failed to parse ADR file", <<>>), f, A)
        ELSE IF create_adr_raises(A, adr_id, status, file_path)
        THEN returns(FixResult(FALSE, "Failed to register ADR in database", <<>>), f, A)
        ELSE returns(FixResult(TRUE, "Registered ADR in database", <<>>), f,
                     A \cup {[id |-> adr_id, file_path |-> file_path]})

\* ------------------------------------------------------------------ FixerRegistry

\* The fixer classes: the five built-in ones, the class without fix_id of the
\* tests and a subclass of SnapshotFixer, which inherits its fix_id.
BuiltinFixers ==
    <<"SnapshotFixer", "GraphFixer", "MissingCtxDirFixer", "MissingTemplateFileFixer",
      "AdrFixer">>

FixerClasses == Range(BuiltinFixers) \cup {"BadFixer", "OtherSnapshotFixer"}

\* fixer_class.fix_id
fix_id_of(fixer_class) ==
    CASE fixer_class = "SnapshotFixer"            -> "missing_snapshot"
      [] fixer_class = "OtherSnapshotFixer"       -> "missing_snapshot"
      [] fixer_class = "GraphFixer"               -> "stale_graph"
      [] fixer_class = "MissingCtxDirFixer"       -> "missing_ctx_dir"
      [] fixer_class = "MissingTemplateFileFixer" -> "missing_template_file"
      [] fixer_class = "AdrFixer"                 -> "unregistered_adr"
      [] fixer_class = "BadFixer"                 -> ""

\* BaseFixer.can_fix
can_fix(fixer_class, issue) == issue.fix_id = fix_id_of(fixer_class)

\* fixer_class(project_root, db_path).fix(issue)
fix_of(fixer_class, f, file, S, E, A, issue, keys) ==
    CASE fixer_class \in {"SnapshotFixer", "OtherSnapshotFixer"} ->
             SnapshotFixer_fix(f, A, issue)
      [] fixer_class = "GraphFixer" -> GraphFixer_fix(f, file, S, E, A, keys)
      [] fixer_class = "MissingCtxDirFixer" -> MissingCtxDirFixer_fix(f, A, issue)
      [] fixer_class = "MissingTemplateFileFixer" ->
             MissingTemplateFileFixer_fix(f, A, issue)
      [] fixer_class = "AdrFixer" -> AdrFixer_fix(f, file, A, issue)
      [] fixer_class = "BadFixer" -> returns(FixResult(TRUE, "", <<>>), f, A)

\* mutant: a fix_id already registered is not refused
register_raises_duplicates(registry, fixer_class) ==
    IF fix_id_of(fixer_class) = "" THEN "ValueError" ELSE "none"

\* FixerRegistry.register: the exception it raises, "none" when it registers
register_raises(registry, fixer_class) ==
    IF fix_id_of(fixer_class) = "" THEN "ValueError"
    ELSE IF fix_id_of(fixer_class) \in DOMAIN registry THEN "ValueError"
    ELSE "none"

\* self._fixers[fix_id] = fixer_class
registry_set(registry, fixer_class) ==
    [fix_id \in DOMAIN registry \cup {fix_id_of(fixer_class)} |->
        IF fix_id = fix_id_of(fixer_class) THEN fixer_class ELSE registry[fix_id]]

RECURSIVE registered(_, _)
registered(classes, i) ==
    IF i = 0 THEN EmptyRegistry ELSE registry_set(registered(classes, i - 1), classes[i])

\* _create_default_registry
_create_default_registry == registered(BuiltinFixers, Len(BuiltinFixers))

\* mutant: the lookup goes to the registry of the built-in fixers
get_fixer_builtin(registry, fix_id) ==
    IF fix_id \in DOMAIN _create_default_registry
    THEN _create_default_registry[fix_id]
    ELSE "None"

\* FixerRegistry.get_fixer: the class of the instance, "None" without one
get_fixer(registry, fix_id) ==
    IF fix_id \in DOMAIN registry THEN registry[fix_id] ELSE "None"

\* ------------------------------------------------------------------ fixer calls

\* The issues handed to the fixers: those the validators emit for the system
\* api, the same for a directory ui that does not exist, a template fix with
\* and without a usable template_name, an ADR fix with and without its
\* parameters, and an issue no fixer knows.
FixIssues ==
    {FixableIssue("api", "snapshot_exists", "error", ".ctx/snapshot.md",
                  "missing_snapshot", [system_path |-> "api"]),
     FixableIssue("ui", "snapshot_exists", "error", ".ctx/snapshot.md",
                  "missing_snapshot", [system_path |-> "ui"]),
     FixableIssue(".ctx", "graph_staleness", "warning", "graph.json", "stale_graph",
                  NoParams),
     FixableIssue("api", "ctx_exists", "error", "", "missing_ctx_dir", NoParams),
     FixableIssue("ui", "ctx_exists", "error", "", "missing_ctx_dir", NoParams),
     FixableIssue("api", "template_exists", "warning", "", "missing_template_file",
                  [template_name |-> "constraints"]),
     FixableIssue("api", "template_exists", "warning", "", "missing_template_file",
                  [template_name |-> "adr"]),
     FixableIssue("api", "template_exists", "warning", "", "missing_template_file",
                  NoParams),
     FixableIssue("api/.ctx", "db_registration", "warning", "api/.ctx/adr/ADR-1.md",
                  "unregistered_adr",
                  [adr_id |-> "ADR-1", file_path |-> "api/.ctx/adr/ADR-1.md",
                   system |-> "api/.ctx"]),
     FixableIssue("api/.ctx", "db_registration", "warning", "api/.ctx/adr/ADR-1.md",
                  "unregistered_adr", [adr_id |-> "ADR-1"]),
     FixableIssue("api", "some_check", "error", "", "unknown_fix_id", NoParams)}

\* One call: the fixers whose fix ran, the issue, what came back and the tree
\* and table adrs the call found.
FixCall(op, invoked, issue, out, f, A) ==
    [op |-> op, invoked |-> invoked, issue |-> issue, raised |-> out.raised,
     result |-> out.result, before |-> [fs |-> f, adrs |-> A]]

\* fixed keeps the latest call, and before it the previous call when that
\* was the same call on the same issue.
log(calls, call) ==
    IF /\ calls # <<>>
       /\ calls[Len(calls)].op = call.op
       /\ calls[Len(calls)].invoked = call.invoked
       /\ calls[Len(calls)].issue = call.issue
    THEN <<calls[Len(calls)], call>>
    ELSE <<call>>

\* FixerRegistry.register
register ==
    /\ \E fixer_class \in FixerClasses :
        LET raised == register_raises(_fixers, fixer_class)
        IN  /\ _fixers' = IF raised = "none" THEN registry_set(_fixers, fixer_class)
                          ELSE _fixers
            /\ last' = [op |-> "register", fixer_class |-> fixer_class, raised |-> raised]
    /\ UNCHANGED <<systems, edges, project, fixed, tx>>

\* FixerRegistry.apply_fix
apply_fix ==
    /\ \E issue \in FixIssues, keys \in Permutations_of(systems) :
        LET fixer_class == get_fixer(_fixers, issue.fix_id)
            out == IF fixer_class = "None"
                   THEN returns(FixResult(FALSE,
                                    "No fixer registered for fix_id: " \o issue.fix_id,
                                    <<>>), fs, adrs)
                   ELSE fix_of(fixer_class, fs, db_file, systems, edges, adrs, issue, keys)
            invoked == IF fixer_class = "None" THEN <<>> ELSE <<fixer_class>>
        IN  /\ fs' = out.fs
            /\ adrs' = out.adrs
            /\ fixed' = log(fixed, FixCall("apply_fix", invoked, issue, out, fs, adrs))
    /\ UNCHANGED <<systems, edges, last, db_file, run, _fixers, tx>>

\* fixer.fix(issue) on an instance of the built-in class for the issue
fix ==
    /\ \E issue \in FixIssues, keys \in Permutations_of(systems) :
        LET fixer_class == get_fixer(_create_default_registry, issue.fix_id)
            out == fix_of(fixer_class, fs, db_file, systems, edges, adrs, issue, keys)
        IN  /\ fixer_class # "None"
            /\ fs' = out.fs
            /\ adrs' = out.adrs
            /\ fixed' = log(fixed, FixCall("fix", <<fixer_class>>, issue, out, fs, adrs))
    /\ UNCHANGED <<systems, edges, last, db_file, run, _fixers, tx>>

\* What can go wrong around a fix, one at a time.
Faults == {"none", "read_only", "templates_missing", "templates_unreadable",
           "db_name_txt", "tool_scalar"}

faulty_tree(f, fault) ==
    CASE fault = "none"                 -> f
      [] fault = "read_only"            -> [f EXCEPT !.read_only = TRUE]
      [] fault = "templates_missing"    -> [f EXCEPT !.templates = "missing"]
      [] fault = "templates_unreadable" -> [f EXCEPT !.templates = "unreadable"]
      [] fault = "db_name_txt"          -> [f EXCEPT !.pyproject = "db_name_txt"]
      [] fault = "tool_scalar"          -> [f EXCEPT !.pyproject = "tool_scalar"]

StoredGraph == generate_graph({"core"}, {<<"core", "core">>}, <<"core">>)

InitFixers ==
    /\ systems = {"core"}
    /\ edges = {<<"core", "core">>}
    /\ last = [op |-> "init"]
    /\ run = NoRun
    /\ tx = NoTransaction
    /\ fixed = <<>>
    /\ _fixers \in {_create_default_registry, registered(<<"OtherSnapshotFixer">>, 1)}
    /\ adrs \in {{}, {[id |-> "ADR-1", file_path |-> "api/.ctx/adr/ADR-1.md"]}}
    /\ db_file \in {"absent", "empty", "ok"}
    /\ \E ctx \in {{Root, "api"}, {Root}, {"api"}},
          snapshot \in {NoSnapshot, CleanSnapshot},
          constraints \in {NoDoc, [state |-> "ok", t |-> Recent]},
          graph \in {NoDoc, [state |-> "ok", t |-> Recent]},
          fault \in Faults :
        /\ Root \notin ctx => db_file = "absent" /\ graph = NoDoc
        /\ "api" \notin ctx => snapshot = NoSnapshot /\ constraints = NoDoc
        /\ fault # "none" =>
              /\ ctx = {Root} \/ (ctx = {Root, "api"} /\ constraints = NoDoc)
              /\ snapshot = NoSnapshot /\ graph = NoDoc
              /\ db_file = "ok" /\ adrs = {}
        /\ fs = faulty_tree(
                  [EmptyTree EXCEPT
                      !.ctx = ctx,
                      !.dirs = {"api"},
                      !.files["api"] = {"main.py"},
                      !.snapshot["api"] = snapshot,
                      !.constraints["api"] = constraints,
                      !.adr["api"] = IF "api" \in ctx
                                     THEN [exists |-> TRUE, files |-> <<SupersededAdr>>]
                                     ELSE NoAdrDir,
                      !.graph = graph,
                      !.graph_json = IF graph = NoDoc THEN <<>> ELSE StoredGraph],
                  fault)

NextFixers ==
    \/ apply_fix
    \/ fix

SpecFixers == InitFixers /\ [][NextFixers]_vars

\* FixerRegistry(): a registry under construction
InitRegistry ==
    /\ systems = {}
    /\ edges = {}
    /\ last = [op |-> "init"]
    /\ ProjectIdle
    /\ ToolsIdle

NextRegistry ==
    \/ register

SpecRegistry == InitRegistry /\ [][NextRegistry]_vars

\* ------------------------------------------------------------------ claims on the fixers

\* The target of a fix is in the state the fix is meant to reach.
target_fixed(fixer_class, f, issue) ==
    CASE fixer_class \in {"SnapshotFixer", "OtherSnapshotFixer"} ->
             template_path_exists(f.fs, issue.system, "snapshot")
      [] fixer_class = "GraphFixer" ->
             /\ db_file = "ok"
             /\ f.fs.graph.state = "ok"
             /\ f.fs.graph_json = generate_graph(systems, edges, list_systems(systems))
      [] fixer_class = "MissingCtxDirFixer" -> issue.system \in f.fs.ctx
      [] fixer_class = "MissingTemplateFileFixer" ->
             /\ fix_params_get(issue, "template_name") \in VALID_TEMPLATES
             /\ template_path_exists(f.fs, issue.system,
                                     fix_params_get(issue, "template_name"))
      [] fixer_class = "AdrFixer" ->
             /\ db_file = "ok"
             /\ path_exists(f.fs, fix_params_get(issue, "file_path"))
             /\ get_adr(f.adrs, fix_params_get(issue, "adr_id"))

\* fix was called twice in a row on the same issue, the first time on a target
\* that was already fixed.
TwiceOnFixed ==
    /\ Len(fixed) = 2
    /\ fixed[1].op = "fix"
    /\ target_fixed(fixed[1].invoked[1], fixed[1].before, fixed[1].issue)

\* C11: when fix of a built-in fixer is called twice in a row on a target that
\* is already in the fixed state, both calls return success = true and the
\* files_modified of the second call is empty.
C11_TwiceOnFixedTarget ==
    TwiceOnFixed =>
        /\ fixed[1].raised = "none" /\ fixed[1].result.success
        /\ fixed[2].raised = "none" /\ fixed[2].result.success
        /\ fixed[2].result.files_modified = <<>>

\* C12: fix of every built-in fixer, and FixerRegistry.apply_fix, never raises:
\* every call returns a FixResult, with success = false when the fix failed.
C12_FixNeverRaises ==
    \A i \in DOMAIN fixed :
        /\ fixed[i].raised = "none"
        /\ fixed[i].result.success \in BOOLEAN

\* ------------------------------------------------------------------ claims on the registry

\* C13: register raises ValueError for a class with an empty fix_id and for a
\* fix_id already registered, and then leaves the registry as it was; a fix_id
\* once registered keeps the class first registered under it.
C13_RegisterKeepsFirst ==
    [][LET fixer_class == last'.fixer_class
           fix_id == fix_id_of(fixer_class)
       IN  /\ fix_id = "" \/ fix_id \in DOMAIN _fixers =>
                 last'.raised = "ValueError" /\ _fixers' = _fixers
           /\ fix_id # "" /\ fix_id \notin DOMAIN _fixers =>
                 /\ last'.raised = "none"
                 /\ DOMAIN _fixers' = DOMAIN _fixers \cup {fix_id}
                 /\ _fixers'[fix_id] = fixer_class
           /\ \A id \in DOMAIN _fixers :
                 id \in DOMAIN _fixers' /\ _fixers'[id] = _fixers[id]
           /\ "" \notin DOMAIN _fixers']_vars

\* A second class was refused for a fix_id that SnapshotFixer holds.
C13_Witness ==
    /\ last.op = "register"
    /\ last.fixer_class = "OtherSnapshotFixer"
    /\ last.raised = "ValueError"
    /\ "missing_snapshot" \in DOMAIN _fixers
    /\ _fixers["missing_snapshot"] = "SnapshotFixer"

\* C14: apply_fix runs fix on exactly one fixer, of the class registered under
\* issue.fix_id, which can fix the issue, and ends as that fix ends; without
\* a fixer under issue.fix_id it runs no fix, changes nothing and returns a
\* FixResult with success = false whose message names the fix_id.
C14_ApplyFixDispatch ==
    \A i \in DOMAIN fixed :
        LET call == fixed[i]
            fix_id == call.issue.fix_id
        IN  call.op = "apply_fix" =>
                IF fix_id \in DOMAIN _fixers
                THEN /\ call.invoked = <<_fixers[fix_id]>>
                     /\ can_fix(_fixers[fix_id], call.issue)
                     /\ \E keys \in Permutations_of(systems) :
                          LET out == fix_of(_fixers[fix_id], call.before.fs, db_file,
                                            systems, edges, call.before.adrs,
                                            call.issue, keys)
                          IN  call.raised = out.raised /\ call.result = out.result
                ELSE /\ call.invoked = <<>>
                     /\ call.raised = "none"
                     /\ ~call.result.success
                     /\ call.result.message = "No fixer registered for fix_id: " \o fix_id
                     /\ call.result.files_modified = <<>>
                     /\ i = Len(fixed) => fs = call.before.fs /\ adrs = call.before.adrs

\* apply_fix created a snapshot.md through the one class registered for it.
C14_Witness ==
    /\ fixed # <<>>
    /\ fixed[Len(fixed)].op = "apply_fix"
    /\ fixed[Len(fixed)].invoked = <<"OtherSnapshotFixer">>
    /\ fixed[Len(fixed)].raised = "none"
    /\ fixed[Len(fixed)].result.files_modified = <<"api/.ctx/snapshot.md">>
    /\ fs.snapshot["api"].state = "ok"

\* ------------------------------------------------------------------ claims on the store

\* add_dependency can store the pair <<system_path, depends_on>> now.
Accepts(system_path, depends_on) ==
    ENABLED (add_dependency /\ edges' = edges \cup {<<system_path, depends_on>>})

\* C15: every stored dependency has both ends among the registered systems,
\* once per ordered pair: add_dependency that raises an integrity error leaves
\* the edges alone and one that returns adds a new pair between registered
\* systems; delete_system removes exactly the edges at the deleted system;
\* a self-edge and an edge that closes a cycle are accepted like any other.
C15_EdgesBetweenSystems ==
    /\ [](/\ \A e \in edges : e[1] \in systems /\ e[2] \in systems
          /\ Len(dependency_rows(edges)) = Cardinality(edges)
          /\ Cardinality(edges) < MaxEdges =>
                \A a \in systems, b \in systems :
                    (a = b \/ <<b, a>> \in TransitiveClosure(edges)) /\ <<a, b>> \notin edges
                        => Accepts(a, b))
    /\ [][/\ last'.op = "add_dependency" /\ last'.raised # "none" => edges' = edges
          /\ last'.op = "add_dependency" /\ last'.raised = "none" =>
                \E a \in systems, b \in systems :
                    <<a, b>> \notin edges /\ edges' = edges \cup {<<a, b>>}
          /\ last'.op = "delete_system" =>
                \E path \in Paths :
                    /\ systems' = systems \ {path}
                    /\ last'.returned = (path \in systems)
                    /\ edges' = {e \in edges : e[1] # path /\ e[2] # path}]_vars

\* After a delete_system the store still holds a self-edge and a cycle of two
\* systems, and no edge at the deleted system.
C15_Witness ==
    /\ last.op = "delete_system"
    /\ last.returned
    /\ "api" \notin systems
    /\ edges = {<<"core", "core">>, <<"core", "ui">>, <<"ui", "core">>}

\* ------------------------------------------------------------------ ContextDB.transaction

\* An open connection: blocks are the transaction() blocks entered and not yet
\* left, innermost last; in_transaction is ContextDB._in_transaction; active
\* tells whether SQLite has a transaction open (BEGIN, or the implicit one
\* sqlite3 opens before an INSERT or DELETE); committed are the rows of table
\* systems as of the last COMMIT, while systems is what the connection sees;
\* raised is the exception on its way up; begun remembers the rows the
\* connection saw when the outermost block was entered.
Connected(rows) ==
    [pc |-> "open", blocks |-> <<>>, in_transaction |-> FALSE, active |-> FALSE,
     committed |-> rows, raised |-> "none", begun |-> rows]

\* connection.commit()
commit(t, rows) == [t EXCEPT !.committed = rows, !.active = FALSE]

\* connection.rollback(): the rows the connection sees afterwards
rollback(t) == t.committed

\* with db.transaction(): up to the yield
transaction_enter(t, rows) ==
    IF t.in_transaction
    THEN [tx |-> [t EXCEPT !.blocks = Append(@, "nested")], rows |-> rows]
    ELSE IF t.active
    THEN [tx |-> [t EXCEPT !.raised = "TransactionError", !.active = FALSE,
                           !.in_transaction = FALSE],
          rows |-> rollback(t)]
    ELSE [tx |-> [t EXCEPT !.blocks = <<"outer">>, !.in_transaction = TRUE,
                           !.active = TRUE, !.begun = rows],
          rows |-> rows]

\* mutant: the outermost block commits whether or not an exception came up
transaction_leave_commit(t, rows) ==
    LET block == t.blocks[Len(t.blocks)]
        left == [t EXCEPT !.blocks = SubSeq(@, 1, Len(@) - 1)]
    IN  IF block = "nested" THEN [tx |-> left, rows |-> rows]
        ELSE [tx |-> [commit(left, rows) EXCEPT !.in_transaction = FALSE],
              rows |-> rows]

\* with db.transaction(): from the yield on, when the body returned or raised
transaction_leave(t, rows) ==
    LET block == t.blocks[Len(t.blocks)]
        left == [t EXCEPT !.blocks = SubSeq(@, 1, Len(@) - 1)]
    IN  IF block = "nested" THEN [tx |-> left, rows |-> rows]
        ELSE IF t.raised = "none"
        THEN [tx |-> [commit(left, rows) EXCEPT !.in_transaction = FALSE],
              rows |-> rows]
        ELSE [tx |-> [left EXCEPT !.active = FALSE, !.in_transaction = FALSE],
              rows |-> rollback(t)]

\* The rows the statements of the callers insert and delete.
TxPaths == {"api", "core", "ui"}

InitTx ==
    /\ systems \in {{}, {"core"}}
    /\ edges = {}
    /\ last = [op |-> "init"]
    /\ ProjectIdle
    /\ _fixers = EmptyRegistry
    /\ fixed = <<>>
    /\ tx = Connected(systems)

\* with db.transaction():
enter ==
    /\ tx.raised = "none"
    /\ Len(tx.blocks) < MaxNesting
    /\ LET entered == transaction_enter(tx, systems)
       IN  /\ tx' = entered.tx
           /\ systems' = entered.rows
           /\ last' = [op |-> "enter", block |-> IF tx.in_transaction THEN "nested"
                                                 ELSE "outer"]
    /\ UNCHANGED <<edges, project, _fixers, fixed>>

\* db.execute of an INSERT INTO systems or a DELETE FROM systems; an INSERT
\* of a path already there raises sqlite3.IntegrityError
execute ==
    /\ tx.raised = "none"
    /\ \E path \in TxPaths, sql \in {"INSERT", "DELETE"} :
        IF sql = "INSERT" /\ systems_integrity_conflict(systems, path)
        THEN /\ tx' = [tx EXCEPT !.raised = "IntegrityError"]
             /\ UNCHANGED systems
        ELSE /\ systems' = IF sql = "INSERT" THEN systems \cup {path}
                           ELSE systems \ {path}
             /\ tx' = [tx EXCEPT !.active = TRUE]
    /\ last' = [op |-> "execute", block |-> "none"]
    /\ UNCHANGED <<edges, project, _fixers, fixed>>

\* raise ValueError(...) in the body of a block
raise ==
    /\ tx.raised = "none"
    /\ tx.blocks # <<>>
    /\ tx' = [tx EXCEPT !.raised = "ValueError"]
    /\ last' = [op |-> "raise", block |-> "none"]
    /\ UNCHANGED <<systems, edges, project, _fixers, fixed>>

\* The innermost block is left, by its end or by the exception on its way up.
leave ==
    /\ tx.blocks # <<>>
    /\ LET left == transaction_leave(tx, systems)
       IN  /\ tx' = left.tx
           /\ systems' = left.rows
           /\ last' = [op |-> "leave", block |-> tx.blocks[Len(tx.blocks)],
                       rows |-> systems]
    /\ UNCHANGED <<edges, project, _fixers, fixed>>

\* except ...: the caller handles the exception where it has arrived
catch ==
    /\ tx.raised # "none"
    /\ tx' = [tx EXCEPT !.raised = "none"]
    /\ last' = [op |-> "catch", block |-> "none"]
    /\ UNCHANGED <<systems, edges, project, _fixers, fixed>>

\* db.commit() outside every block
explicit_commit ==
    /\ tx.raised = "none"
    /\ tx.blocks = <<>>
    /\ tx' = commit(tx, systems)
    /\ last' = [op |-> "commit", block |-> "none"]
    /\ UNCHANGED <<systems, edges, project, _fixers, fixed>>

NextTx ==
    \/ enter
    \/ execute
    \/ raise
    \/ leave
    \/ catch
    \/ explicit_commit

SpecTx == InitTx /\ [][NextTx]_vars

\* C16: what was changed inside an outermost transaction block is committed
\* exactly when the block ends without an exception; when an exception leaves
\* the outermost block, every change since the block began is rolled back and
\* the exception goes on to the caller; a nested block neither commits nor
\* rolls back; in_transaction holds exactly while an outermost block is open.
C16_Transaction ==
    /\ [](/\ tx.in_transaction = (tx.blocks # <<>>)
          /\ tx.blocks # <<>> => tx.committed = tx.begun)
    /\ [][last'.op = "leave" =>
            IF last'.block = "nested"
            THEN /\ tx'.committed = tx.committed
                 /\ systems' = systems
                 /\ tx'.raised = tx.raised
                 /\ tx'.in_transaction
            ELSE /\ ~tx'.in_transaction
                 /\ tx'.raised = tx.raised
                 /\ IF tx.raised = "none"
                    THEN tx'.committed = systems /\ systems' = systems
                    ELSE tx'.committed = tx.begun /\ systems' = tx.begun]_vars

\* An exception has left the outermost block, which had inserted one row and
\* deleted another: both changes are undone.
C16_Witness ==
    /\ last.op = "leave"
    /\ last.block = "outer"
    /\ last.rows = {"api"}
    /\ tx.raised = "ValueError"
    /\ systems = {"core"}
    /\ tx.committed = {"core"}
    /\ ~tx.in_transaction

\* The latest call, when it ran SnapshotFixer.fix.
SnapshotFixCalled ==
    /\ fixed # <<>>
    /\ fixed[Len(fixed)].invoked # <<>>
    /\ fixed[Len(fixed)].invoked[1] \in {"SnapshotFixer", "OtherSnapshotFixer"}

\* C17: SnapshotFixer.fix leaves a snapshot.md that is there as it is and
\* returns success = true with no files modified; it writes snapshot.md only
\* into a context directory that has none; without the context directory it
\* returns success = false and creates nothing.
C17_SnapshotFixerFrame ==
    SnapshotFixCalled =>
        LET call == fixed[Len(fixed)]
            system == call.issue.system
            before == call.before.fs
        IN  /\ template_path_exists(before, system, "snapshot") =>
                /\ call.raised = "none"
                /\ call.result.success
                /\ call.result.files_modified = <<>>
                /\ fs.snapshot[system] = before.snapshot[system]
                /\ fs = before
            /\ fs # before =>
                /\ system \in before.ctx
                /\ before.snapshot[system].state = "absent"
                /\ fs = [before EXCEPT !.snapshot[system] = fs.snapshot[system]]
                /\ call.result.files_modified = <<ctx_file(system, "snapshot.md")>>
            /\ system \notin before.ctx =>
                /\ call.raised = "none"
                /\ ~call.result.success
                /\ fs = before
            /\ adrs = call.before.adrs

\* SnapshotFixer.fix met a snapshot.md with content and left it alone.
C17_Witness ==
    /\ SnapshotFixCalled
    /\ fixed[Len(fixed)].before.fs.snapshot["api"] = CleanSnapshot
    /\ fixed[Len(fixed)].issue.system = "api"
    /\ fixed[Len(fixed)].result.success
    /\ fs.snapshot["api"] = CleanSnapshot

\* ------------------------------------------------------------------ validator calls

\* The cells of the Dependencies and Dependents tables of the projects below.
Refs ==
    {"", "core", "ui", "lost", "a.ts", "x (External)", "x(External)",
     "UI parts", "src/a b"}

DependencyTables == {<<>>, <<"lost", "core">>, <<"lost", "lost">>} \cup {<<ref>> : ref \in Refs}

DependentTables == {<<>>, <<"lost">>, <<"x(External)", "ui">>}

\* A snapshot.md with the two tables.
ReferringSnapshot(dependencies, dependents) ==
    [state |-> "ok", t |-> Recent, files |-> <<"main.py">>,
     dependencies |-> dependencies, dependents |-> dependents]

Adr2File ==
    [id |-> "ADR-2", path |-> "api/.ctx/adr/ADR-2.md", t |-> Recent,
     status |-> "accepted", by |-> "", readable |-> TRUE]

\* The recorded file paths of the row ADR-2 of the store.
RecordedPaths == {"api/.ctx/adr/ADR-2.md", "api/.ctx/adr/ADR-2-old.md", "docs/ADR-2.md"}

Adr10File ==
    [id |-> "ADR-10", path |-> "api/.ctx/adr/ADR-10.md", t |-> Recent,
     status |-> "accepted", by |-> "", readable |-> TRUE]

\* ADR-2 in the ADR directory of cli.
Adr2FileOfCli == [Adr2File EXCEPT !.path = "cli/.ctx/adr/ADR-2.md"]

\* The ADR directories of the projects below.
AdrDirs ==
    {NoAdrDir} \cup
    {[exists |-> TRUE, files |-> files] :
        files \in {<<>>, <<SupersededAdr>>, <<Adr2File>>, <<Adr10File>>,
                   <<SupersededAdr, Adr2File>>}}

\* The identifiers a decisions.md refers to, in the order of the set that
\* re.findall fills.
Indexes == {<<>>, <<"ADR-1">>, <<"ADR-2">>, <<"ADR-1", "ADR-2">>, <<"ADR-2", "ADR-1">>}

DecisionsDocs ==
    {NoDecisions, [state |-> "unreadable", t |-> Recent, indexed |-> <<>>]} \cup
    {[state |-> "ok", t |-> Recent, indexed |-> indexed] : indexed \in Indexes}

\* The rows of a debt table: priority as written, Created understood or not,
\* the age in hours, the number of referenced files changed since.
DebtItems ==
    {[priority |-> priority, dated |-> dated, age |-> age, changed |-> 0] :
        priority \in {"high", "High", "low", ""},
        dated \in BOOLEAN,
        age \in {DEFAULT_AGE_THRESHOLD_DAYS * HoursPerDay - 1,
                 DEFAULT_AGE_THRESHOLD_DAYS * HoursPerDay,
                 DEFAULT_AGE_THRESHOLD_DAYS * HoursPerDay + 1,
                 45 * HoursPerDay}} \cup {OldDebt}

DebtDocs ==
    {NoDebt, [state |-> "unreadable", rows |-> <<>>]} \cup
    {[state |-> "ok", rows |-> rows] :
        rows \in UNION {[1..n -> DebtItems] : n \in 0..2}}

\* A project with the documented systems api and cli, the directory ui and the
\* registered system core.  Either the references of a snapshot vary, or the
\* snapshots, or the ADRs, or the ages of the documents, or the debt.
\* How far a document is behind: at its threshold, an hour past it, at the
\* severe threshold, an hour past that.
Lags(threshold_days) ==
    {threshold_days * HoursPerDay, threshold_days * HoursPerDay + 1,
     SEVERE_STALENESS_DAYS * HoursPerDay, SEVERE_STALENESS_DAYS * HoursPerDay + 1}

\* The documents of api, each so far behind Recent or absent, beside source
\* files and ADR files last changed at Recent or before.
AgedTree(snapshot_lag, constraints_lag, decisions_lag, sources, adr_files) ==
    [EmptyTree EXCEPT
        !.ctx = {Root, "api"},
        !.dirs = {"api", "ui"},
        !.files["api"] = {"main.py"},
        !.sources["api"] = sources,
        !.snapshot["api"] = IF snapshot_lag = 0 THEN NoSnapshot
                            ELSE [ReferringSnapshot(<<>>, <<>>)
                                      EXCEPT !.t = Recent - snapshot_lag],
        !.constraints["api"] = IF constraints_lag = 0 THEN NoDoc
                               ELSE [state |-> "ok", t |-> Recent - constraints_lag],
        !.decisions["api"] = IF decisions_lag = 0 THEN NoDecisions
                             ELSE [state |-> "ok", t |-> Recent - decisions_lag,
                                   indexed |-> <<"ADR-1">>],
        !.adr["api"] = [exists |-> TRUE, files |-> adr_files]]

ValidatedTree(documented, api, cli, adr, adr_of_cli, decisions, loose, debt) ==
    [EmptyTree EXCEPT
        !.ctx = {Root} \cup documented,
        !.dirs = documented \cup {"ui"},
        !.files["api"] = {"main.py"},
        !.files["cli"] = {"main.py"},
        !.snapshot["api"] = api,
        !.snapshot["cli"] = cli,
        !.adr["api"] = adr,
        !.adr["cli"] = adr_of_cli,
        !.decisions["api"] = decisions,
        !.debt["api"] = debt,
        !.debt["cli"] = IF debt = NoDebt THEN NoDebt
                        ELSE [state |-> "ok", rows |-> <<OldDebt>>],
        !.loose = loose]

InitValidate ==
    /\ systems = {"core"}
    /\ edges = {}
    /\ last = [op |-> "init"]
    /\ run = NoRun
    /\ ToolsIdle
    /\ db_file \in {"absent", "empty", "ok"}
    /\ \/ /\ adrs = {}
          /\ \E dependencies \in DependencyTables, dependents \in DependentTables :
                 fs = ValidatedTree({"api"}, ReferringSnapshot(dependencies, dependents),
                                    NoSnapshot, NoAdrDir, NoAdrDir, NoDecisions, {}, NoDebt)
       \/ /\ adrs = {}
          /\ \E api \in {NoSnapshot, UnreadableSnapshot, CleanSnapshot},
                cli \in {NoSnapshot, CleanSnapshot, DriftedSnapshot} :
                 fs = ValidatedTree({"api", "cli"}, api, cli,
                                    NoAdrDir, NoAdrDir, NoDecisions, {}, NoDebt)
       \/ /\ adrs \in {{}} \cup {{[id |-> "ADR-2", file_path |-> file_path]} :
                                    file_path \in RecordedPaths}
          /\ \E adr \in AdrDirs,
                adr_of_cli \in {NoAdrDir, [exists |-> TRUE, files |-> <<Adr2FileOfCli>>]},
                decisions \in DecisionsDocs,
                loose \in {{}, {"docs/ADR-2.md"}} :
                 fs = ValidatedTree({"api", "cli"}, ReferringSnapshot(<<>>, <<>>),
                                    NoSnapshot, adr, adr_of_cli, decisions, loose, NoDebt)
       \/ /\ adrs = {}
          /\ \E snapshot_lag \in {0} \cup Lags(SNAPSHOT_THRESHOLD_DAYS),
                constraints_lag \in {0} \cup Lags(CONSTRAINTS_THRESHOLD_DAYS),
                decisions_lag \in {0} \cup Lags(DECISIONS_THRESHOLD_DAYS),
                sources \in {<<>>, <<[t |-> Recent, aware |-> TRUE]>>,
                             <<[t |-> Recent - HoursPerDay, aware |-> TRUE],
                               [t |-> Recent, aware |-> TRUE]>>,
                             <<[t |-> Recent, aware |-> TRUE],
                               [t |-> Recent, aware |-> FALSE]>>},
                adr_files \in {<<>>, <<SupersededAdr>>,
                               <<SupersededAdr,
                                 [Adr2File EXCEPT !.t = Recent - 40 * HoursPerDay]>>} :
                 fs = AgedTree(snapshot_lag, constraints_lag, decisions_lag,
                               sources, adr_files)
       \/ /\ adrs = {}
          /\ \E debt \in DebtDocs :
                 fs = ValidatedTree({"api", "cli"}, ReferringSnapshot(<<>>, <<>>),
                                    NoSnapshot, NoAdrDir, NoAdrDir, NoDecisions, {}, debt)

\* result = validator.validate(), on the project as it is
validated(name, outcome) ==
    /\ last' = [op |-> name, raised |-> outcome.raised, result |-> outcome.result,
                before |-> [fs |-> fs, db_file |-> db_file, adrs |-> adrs]]
    /\ db_file' = IF outcome.opened
                  THEN ContextDB_open(db_file, FALSE, fs.ctx) ELSE db_file
    /\ fs' = IF outcome.opened
             THEN [fs EXCEPT !.ctx = ContextDB_open_ctx(db_file, FALSE, @)] ELSE fs
    /\ UNCHANGED <<systems, edges, adrs, run, tools>>

validate_snapshots ==
    validated("snapshot-validator", SnapshotValidator_validate(fs, db_file, systems))

validate_adrs ==
    validated("adr-validator", AdrValidator_validate(fs, db_file, adrs))

validate_debt == validated("debt-auditor", DebtAuditor_validate(fs))

validate_freshness == validated("freshness-checker", FreshnessChecker_validate(fs))

NextValidate ==
    \/ validate_snapshots
    \/ validate_adrs
    \/ validate_debt
    \/ validate_freshness

SpecValidate == InitValidate /\ [][NextValidate]_vars

\* SnapshotValidator.validate has returned a result.
SnapshotsValidated == last.op = "snapshot-validator" /\ ~last.raised

\* The issues of a result that name a system.
issues_of(result, system) ==
    {i \in DOMAIN result.issues : result.issues[i].system = system}

\* C18: for every system directory with a context directory and no snapshot.md
\* the result of SnapshotValidator has exactly one issue for that system, a
\* FixableIssue with check "snapshot_exists", severity "error" and fix_id
\* "missing_snapshot"; the system is not counted in systems_checked, and the
\* status is "fail".
C18_MissingSnapshot ==
    SnapshotsValidated =>
        LET f == last.before.fs
            result == last.result
            documented == f.ctx \ {Root}
        IN  /\ \A system \in documented :
                   f.snapshot[system].state = "absent" =>
                       /\ Cardinality(issues_of(result, system)) = 1
                       /\ \A i \in issues_of(result, system) :
                              /\ result.issues[i].check = "snapshot_exists"
                              /\ result.issues[i].severity = "error"
                              /\ result.issues[i].fix_id = "missing_snapshot"
                              /\ result.issues[i].fix_params = [system_path |-> system]
                       /\ result.status = "fail"
            /\ result.systems_checked =
                   Cardinality({system \in documented :
                                   f.snapshot[system].state # "absent"})

\* C18 witness: of two documented systems the one without snapshot.md has its
\* one issue, the other one is counted and has issues of its own.
C18_Witness ==
    /\ SnapshotsValidated
    /\ last.before.fs.snapshot["api"] = NoSnapshot
    /\ last.before.fs.snapshot["cli"] = DriftedSnapshot
    /\ "cli" \in last.before.fs.ctx
    /\ last.result.systems_checked = 1
    /\ Cardinality(issues_of(last.result, "api")) = 1
    /\ Cardinality(issues_of(last.result, "cli")) > 1

\* The systems of the store as a validator can read them.
StoreSystems == IF last.before.db_file = "ok" THEN systems ELSE {}

\* The issues of a check that a result holds for a system.
issues_for(result, system, check) ==
    {i \in issues_of(result, system) : result.issues[i].check = check}

\* The rows of a table whose cell is a path, not external and not known.
unknown_rows(table, External(_), Known(_)) ==
    {i \in DOMAIN table : table[i] # "" /\ ~External(table[i]) /\ ~Known(table[i])}

\* Every snapshot.md read has, for each of its two tables, as many issues as
\* the table has rows that are neither external nor known, and all of them are
\* warnings.
ReferencesChecked(External(_), Known(_)) ==
    SnapshotsValidated =>
        \A system \in last.before.fs.ctx \ {Root} :
            LET doc == last.before.fs.snapshot[system]
                dependency_issues == issues_for(last.result, system, "dependency_exists")
                dependent_issues == issues_for(last.result, system, "dependent_exists")
            IN  /\ Cardinality(dependency_issues) =
                       Cardinality(unknown_rows(doc.dependencies, External, Known))
                /\ Cardinality(dependent_issues) =
                       Cardinality(unknown_rows(doc.dependents, External, Known))
                /\ \A i \in dependency_issues \cup dependent_issues :
                       last.result.issues[i].severity = "warning"

\* contains "(external)", ends in a recognized file extension, or contains a
\* space and does not start with "src/"
MarkedExternal(ref) ==
    \/ Contains(Chars(ref), external_marker)
    \/ \E ext \in file_extensions : EndsWith(Chars(ref), ext)
    \/ Contains(Chars(ref), <<32>>) /\ ~StartsWith(Chars(ref), <<115, 114, 99, 47>>)

\* the same with the marker "(external)" in any letter case
MarkedExternalAnyCase(ref) ==
    MarkedExternal(ref) \/ Contains(Lower(Chars(ref)), external_marker)

InStore(ref) == ref \in StoreSystems

DirectoryOrInStore(ref) == ref \in last.before.fs.dirs \/ InStore(ref)

AdrsValidated == last.op = "adr-validator" /\ ~last.raised

\* The ADR entries of the store as a validator can read them.
StoreAdrs == IF last.before.db_file = "ok" THEN adrs ELSE {}

\* The issues of a result that report a store entry without its file.
orphan_db_entries(result, entry) ==
    {i \in DOMAIN result.issues :
        /\ result.issues[i].check = "orphan_db_entry"
        /\ result.issues[i].file = entry.file_path}

\* C20: AdrValidator emits an issue with check "orphan_db_entry" and severity
\* "error", and so returns status "fail", for every ADR entry of the store
\* whose recorded file path does not exist on disk, and for no entry whose
\* recorded file path exists.
C20_OrphanDbEntry ==
    AdrsValidated =>
        \A entry \in StoreAdrs :
            IF path_exists(last.before.fs, entry.file_path)
            THEN orphan_db_entries(last.result, entry) = {}
            ELSE /\ orphan_db_entries(last.result, entry) # {}
                 /\ \A i \in orphan_db_entries(last.result, entry) :
                        last.result.issues[i].severity = "error"
                 /\ last.result.status = "fail"

\* The context directories whose decisions.md AdrValidator has read.
IndexedContexts ==
    {owner \in last.before.fs.ctx : last.before.fs.decisions[owner].state = "ok"}

\* The ADR files in the ADR directory of a context.
adr_files_of(owner) ==
    IF last.before.fs.adr[owner].exists THEN last.before.fs.adr[owner].files ELSE <<>>

\* The identifiers of the index of a context without a file of that identifier
\* in the ADR directory of the context.
MissingHere(owner) ==
    {id \in Range(last.before.fs.decisions[owner].indexed) :
        \A j \in DOMAIN adr_files_of(owner) : adr_files_of(owner)[j].id # id}

\* The same, where a file of that identifier in the ADR directory of any
\* context, or a file of the context whose name begins with the identifier,
\* counts as the file.
MissingAnywhere(owner) ==
    {id \in MissingHere(owner) :
        /\ \A other \in last.before.fs.ctx :
               \A j \in DOMAIN adr_files_of(other) : adr_files_of(other)[j].id # id
        /\ \A j \in DOMAIN adr_files_of(owner) :
               ~StartsWith(Chars(adr_files_of(owner)[j].id), Chars(id))}

\* The ADR files of a context that its index does not name.
NotIndexed(owner) ==
    {j \in DOMAIN adr_files_of(owner) :
        adr_files_of(owner)[j].id \notin Range(last.before.fs.decisions[owner].indexed)}

\* The result has, for every index read, one broken_reference issue of the
\* given severity for each identifier of Missing and one orphan_file warning
\* for each file not indexed, and no such issue for any other context.
IndexChecked(Missing(_), severity) ==
    AdrsValidated =>
        \A owner \in last.before.fs.ctx :
            LET broken == issues_for(last.result, rel_ctx(owner), "broken_reference")
                orphans == issues_for(last.result, rel_ctx(owner), "orphan_file")
            IN  IF owner \in IndexedContexts
                THEN /\ Cardinality(broken) = Cardinality(Missing(owner))
                     /\ \A i \in broken : last.result.issues[i].severity = severity
                     /\ Cardinality(orphans) = Cardinality(NotIndexed(owner))
                     /\ \A i \in orphans : last.result.issues[i].severity = "warning"
                ELSE broken = {} /\ orphans = {}

\* The result has no issue of another check than those given.
OnlyChecks(checks) ==
    \A i \in DOMAIN last.result.issues : last.result.issues[i].check \in checks

RECURSIVE lstrip(_)
lstrip(c) == IF c # <<>> /\ Head(c) = " " THEN lstrip(Tail(c)) ELSE c

RECURSIVE rstrip(_)
rstrip(c) == IF c # <<>> /\ c[Len(c)] = " " THEN rstrip(SubSeq(c, 1, Len(c) - 1)) ELSE c

strip(c) == rstrip(lstrip(c))

\* line.startswith("|") and line.endswith("|")
pipes(line) == line # <<>> /\ Head(line) = "|" /\ line[Len(line)] = "|"

\* the loop of _parse_table_row: a pipe ends a cell, "\|" is a pipe inside it
RECURSIVE parse_cells(_, _, _, _)
parse_cells(line, i, current_cell, cells) ==
    IF i > Len(line) THEN Append(cells, strip(current_cell))
    ELSE IF line[i] = "\\"
    THEN IF i + 1 <= Len(line) /\ line[i + 1] = "|"
         THEN parse_cells(line, i + 2, Append(current_cell, "|"), cells)
         ELSE parse_cells(line, i + 1, Append(current_cell, "\\"), cells)
    ELSE IF line[i] = "|"
    THEN parse_cells(line, i + 1, <<>>, Append(cells, strip(current_cell)))
    ELSE parse_cells(line, i + 1, Append(current_cell, line[i]), cells)

_parse_table_row(line) ==
    LET headless == IF line # <<>> /\ Head(line) = "|" THEN Tail(line) ELSE line
        inner == IF headless # <<>> /\ headless[Len(headless)] = "|"
                 THEN SubSeq(headless, 1, Len(headless) - 1) ELSE headless
    IN  parse_cells(inner, 1, <<>>, <<>>)

\* re.compile(r"^:?-+:?$").match(cell)
_SEPARATOR_PATTERN(cell) ==
    LET headless == IF cell # <<>> /\ Head(cell) = ":" THEN Tail(cell) ELSE cell
        dashes == IF headless # <<>> /\ headless[Len(headless)] = ":"
                  THEN SubSeq(headless, 1, Len(headless) - 1) ELSE headless
    IN  dashes # <<>> /\ \A i \in DOMAIN dashes : dashes[i] = "-"

\* row_dict[header] = value
setitem(d, key, value) ==
    [k \in DOMAIN d \cup {key} |-> IF k = key THEN value ELSE d[k]]

\* mutant: a header without a cell gets no key
RECURSIVE row_dict_unpadded(_, _, _, _)
row_dict_unpadded(headers, cells, j, d) ==
    IF j > Len(headers) \/ j > Len(cells) THEN d
    ELSE row_dict_unpadded(headers, cells, j + 1, setitem(d, headers[j], cells[j]))

\* for j, header in enumerate(headers): row_dict[header] = cells[j] or ""
RECURSIVE row_dict(_, _, _, _)
row_dict(headers, cells, j, d) ==
    IF j > Len(headers) THEN d
    ELSE row_dict(headers, cells, j + 1,
                  setitem(d, headers[j], IF j <= Len(cells) THEN cells[j] ELSE <<>>))

\* the data rows of _try_parse_table: an empty line or a line without the two
\* pipes ends the table
RECURSIVE data_rows(_, _, _, _)
data_rows(lines, i, headers, rows) ==
    IF i > Len(lines) THEN rows
    ELSE LET line == strip(lines[i])
             cells == _parse_table_row(line)
         IN  IF line = <<>> \/ ~pipes(line) THEN rows
             ELSE data_rows(lines, i + 1, headers,
                      IF cells # <<>>
                      THEN Append(rows, row_dict(headers, cells, 1, <<>>))
                      ELSE rows)

\* _try_parse_table returned None.
NoTable == [none |-> TRUE]

MarkdownTable(headers, rows) == [headers |-> headers, rows |-> rows]

\* _try_parse_table; start_index counts from 1 here
_try_parse_table(lines, start_index) ==
    IF start_index + 1 > Len(lines) THEN NoTable
    ELSE LET header_line == strip(lines[start_index])
             separator_line == strip(lines[start_index + 1])
             headers == _parse_table_row(header_line)
             separator_cells == _parse_table_row(separator_line)
         IN  IF ~pipes(header_line) THEN NoTable
             ELSE IF ~pipes(separator_line) THEN NoTable
             ELSE IF headers = <<>> THEN NoTable
             ELSE IF separator_cells = <<>> THEN NoTable
             ELSE IF \E j \in DOMAIN separator_cells :
                         ~_SEPARATOR_PATTERN(separator_cells[j]) THEN NoTable
             ELSE IF Len(separator_cells) # Len(headers) THEN NoTable
             ELSE MarkdownTable(headers, data_rows(lines, start_index + 2, headers, <<>>))

\* the loop of extract_tables
RECURSIVE tables_from(_, _, _)
tables_from(lines, i, tables) ==
    IF i > Len(lines) THEN tables
    ELSE LET table == _try_parse_table(lines, i)
         IN  IF pipes(strip(lines[i])) /\ table # NoTable
             THEN tables_from(lines, i + 2 + Len(table.rows), Append(tables, table))
             ELSE tables_from(lines, i + 1, tables)

extract_tables(lines) == tables_from(lines, 1, <<>>)

\* str.lower() on the letters of the documents below
lower(c) ==
    [i \in DOMAIN c |-> CASE c[i] = "A" -> "a" [] c[i] = "B" -> "b" [] OTHER -> c[i]]

\* the line has nothing but whitespace
blank(line) == strip(line) = <<>>

\* the number of "#" the line begins with
RECURSIVE hashes(_)
hashes(line) == IF line # <<>> /\ Head(line) = "#" THEN 1 + hashes(Tail(line)) ELSE 0

\* re.compile(r"^(#{1,6})\s+(.+)$", re.MULTILINE) matched at the start of line
\* i: the line where the match ends and group(2).strip(), or no match (end 0).
\* \s+ runs over line ends, so that after hashes without text the next line
\* with text is the text of the heading; where only whitespace follows, .+
\* takes the blanks \s+ gives back.
heading_match(lines, i) ==
    LET level == hashes(lines[i])
        rest == SubSeq(lines[i], level + 1, Len(lines[i]))
        texts == {m \in (i + 1)..Len(lines) : ~blank(lines[m])}
        blanks == {m \in (i + 1)..Len(lines) : lines[m] # <<>>}
        Latest(S) == CHOOSE m \in S : \A n \in S : n <= m
        Earliest(S) == CHOOSE m \in S : \A n \in S : m <= n
    IN  IF level < 1 \/ level > 6 THEN [end |-> 0]
        ELSE IF ~blank(rest)
        THEN IF Head(rest) = " " THEN [end |-> i, text |-> strip(rest)]
             ELSE [end |-> 0]
        ELSE IF texts # {} THEN [end |-> Earliest(texts), text |-> strip(lines[Earliest(texts)])]
        ELSE IF blanks # {} THEN [end |-> Latest(blanks), text |-> <<>>]
        ELSE IF Len(rest) >= 2 THEN [end |-> i, text |-> <<>>]
        ELSE [end |-> 0]

\* list(heading_pattern.finditer(content)): the matches from line i on
RECURSIVE headings_from(_, _, _)
headings_from(lines, i, headings) ==
    IF i > Len(lines) THEN headings
    ELSE LET match == heading_match(lines, i)
         IN  IF match.end = 0 THEN headings_from(lines, i + 1, headings)
             ELSE headings_from(lines, match.end + 1,
                                Append(headings, [start |-> i] @@ match))

\* content[target_pos:next_heading_pos].split("\n")
section_lines(lines, target_end, next_start) ==
    <<<<>>>> \o SubSeq(lines, target_end + 1, next_start - 1)
            \o (IF next_start <= Len(lines) THEN <<<<>>>> ELSE <<>>)

\* extract_table_by_header
extract_table_by_header(lines, header_contains) ==
    LET headings == headings_from(lines, 1, <<>>)
        targets == {h \in DOMAIN headings :
                       Contains(lower(headings[h].text), lower(header_contains))}
        target == CHOOSE h \in targets : \A g \in targets : h <= g
        next_heading_pos == IF target < Len(headings)
                            THEN headings[target + 1].start ELSE Len(lines) + 1
        tables == extract_tables(section_lines(lines, headings[target].end,
                                               next_heading_pos))
    IN  IF targets = {} THEN NoTable
        ELSE IF tables # <<>> THEN tables[1]
        ELSE NoTable

\* ------------------------------------------------------------------ parser calls

\* The lines of the documents with tables: rows of four, three and two cells
\* (the last with the same cell twice),
\* separators of three and two cells, a row that is no separator, a row with an
\* escaped pipe, an empty line and a line of text.
TableLines ==
    {<<"|", "a", "|", "b", "|", "c", "|", "d", "|">>,
     <<" ", "|", " ", "a", " ", "|", "b", "|", "c", "|", " ">>,
     <<"|", "c", "|", "c", "|">>,
     <<"|", " ", "-", " ", "|", ":", "-", ":", "|", "-", "-", ":", "|">>,
     <<"|", "-", "|", ":", "-", "|">>,
     <<"|", "-", "|", ":", "|", "-", "|">>,
     <<"|", "c", "\\", "|", "d", "|">>,
     <<>>,
     <<"a", "|">>}

Tabular == UNION {[1..n -> TableLines] : n \in 0..MaxLines}

\* The lines of the documents with headings: two headings with text, a
\* heading without, a paragraph, an empty line, two header rows, a separator.
HeadedLines ==
    {<<"#", "#", " ", "A", "b">>,
     <<"#", " ", "c">>,
     <<"#">>,
     <<"a", "b">>,
     <<>>,
     <<"|", "a", "|">>,
     <<"|", "c", "|">>,
     <<"|", "-", "|">>}

\* Documents with and without a table in front.
Headed ==
    {front \o body :
        front \in {<<>>, <<<<"|", "c", "|">>, <<"|", "-", "|">>>>},
        body \in UNION {[1..n -> HeadedLines] : n \in 0..MaxLines}}

\* The texts looked for in the headings.
Sought == {<<"a", "B">>, <<"c">>, <<"d">>}

InitMarkdown ==
    /\ systems = {}
    /\ edges = {}
    /\ last = [op |-> "init"]
    /\ ProjectIdle
    /\ ToolsIdle

ExtractTables ==
    /\ \E lines \in Tabular :
           last' = [op |-> "extract_tables", lines |-> lines,
                    returned |-> extract_tables(lines)]
    /\ UNCHANGED <<systems, edges, project, tools>>

TryParseTable ==
    /\ \E lines \in Tabular, start_index \in 1..MaxLines :
           /\ start_index <= Len(lines)
           /\ last' = [op |-> "_try_parse_table", lines |-> lines,
                       start_index |-> start_index,
                       returned |-> _try_parse_table(lines, start_index)]
    /\ UNCHANGED <<systems, edges, project, tools>>

ExtractTableByHeader ==
    /\ \E lines \in Headed, header_contains \in Sought :
           last' = [op |-> "extract_table_by_header", lines |-> lines,
                    header_contains |-> header_contains,
                    returned |-> extract_table_by_header(lines, header_contains)]
    /\ UNCHANGED <<systems, edges, project, tools>>

NextMarkdown ==
    \/ NoCallYet /\ ExtractTables
    \/ NoCallYet /\ TryParseTable
    \/ NoCallYet /\ ExtractTableByHeader

SpecMarkdown == InitMarkdown /\ [][NextMarkdown]_vars

\* ------------------------------------------------------------------ parser claims

\* The line has a pipe at both ends, whitespace aside.
PipeDelimited(line) == pipes(strip(line))

\* The cell is made of dashes, with a colon in front or behind or both.
DashCell(cell) ==
    \E lead \in {<<>>, <<":">>}, trail \in {<<>>, <<":">>}, n \in 1..Len(cell) :
        cell = lead \o [i \in 1..n |-> "-"] \o trail

\* Line s is a header row and the line right after it a separator row with as
\* many cells.
HeaderAt(lines, s) ==
    /\ s + 1 <= Len(lines)
    /\ PipeDelimited(lines[s])
    /\ PipeDelimited(lines[s + 1])
    /\ LET separator == _parse_table_row(strip(lines[s + 1]))
       IN  /\ Len(separator) = Len(_parse_table_row(strip(lines[s])))
           /\ \A j \in DOMAIN separator : DashCell(separator[j])

\* The data rows of the table with its header at s: the lines from s + 2 up to
\* the first that is not pipe-delimited.
DataLines(lines, s) ==
    {i \in (s + 2)..Len(lines) : \A k \in (s + 2)..i : PipeDelimited(lines[k])}

\* The table is the one with its header at s: each data row has exactly the
\* header keys, a header has the cell at its place or, without one, the empty
\* string (of two equal headers the later one decides).
TableAt(table, lines, s) ==
    LET headers == _parse_table_row(strip(lines[s])) IN
    /\ table.headers = headers
    /\ Len(table.rows) = Cardinality(DataLines(lines, s))
    /\ \A k \in DOMAIN table.rows :
           LET cells == _parse_table_row(strip(lines[s + 1 + k])) IN
           /\ DOMAIN table.rows[k] = Range(headers)
           /\ \A j \in DOMAIN headers :
                  (\A later \in (j + 1)..Len(headers) : headers[later] # headers[j])
                      => table.rows[k][headers[j]] =
                             IF j <= Len(cells) THEN cells[j] ELSE <<>>

\* C22: a table is recognised only where a pipe-delimited header row is
\* directly followed by a separator row with as many cells, each of dashes
\* with optional colons, and there it is; every data row is mapped to exactly
\* the header keys, with the empty string for missing trailing cells and
\* without the cells beyond the headers; extract_tables returns nothing but
\* such tables, and the first of them if there is any.
C22_TablesRecognised ==
    /\ last.op = "_try_parse_table" =>
           IF HeaderAt(last.lines, last.start_index)
           THEN /\ last.returned # NoTable
                /\ TableAt(last.returned, last.lines, last.start_index)
           ELSE last.returned = NoTable
    /\ last.op = "extract_tables" =>
           /\ \A t \in DOMAIN last.returned :
                  \E s \in DOMAIN last.lines :
                      /\ HeaderAt(last.lines, s)
                      /\ TableAt(last.returned[t], last.lines, s)
           /\ (\E s \in DOMAIN last.lines : HeaderAt(last.lines, s)) =>
                  /\ last.returned # <<>>
                  /\ LET first == CHOOSE s \in DOMAIN last.lines :
                                      /\ HeaderAt(last.lines, s)
                                      /\ \A r \in 1..(s - 1) : ~HeaderAt(last.lines, r)
                     IN  TableAt(last.returned[1], last.lines, first)

\* C22 witness: under a header of three columns a row of two cells and a row
\* of four.
C22_Witness ==
    /\ last.op = "extract_tables"
    /\ Len(last.returned) = 1
    /\ last.returned[1].headers = <<<<"a">>, <<"b">>, <<"c">>>>
    /\ Len(last.returned[1].rows) = 2
    /\ last.returned[1].rows[1] =
           (<<"a">> :> <<"c">>) @@ (<<"b">> :> <<"c">>) @@ (<<"c">> :> <<>>)
    /\ last.returned[1].rows[2] =
           (<<"a">> :> <<"a">>) @@ (<<"b">> :> <<"b">>) @@ (<<"c">> :> <<"c">>)

\* The line is a heading: one to six "#", then nothing or whitespace and the
\* text.
IsHeading(line) ==
    /\ hashes(line) \in 1..6
    /\ Len(line) > hashes(line) => line[hashes(line) + 1] = " "

HeadingText(line) == strip(SubSeq(line, hashes(line) + 1, Len(line)))

\* The table between the first heading whose text contains the text sought,
\* letter case aside, and the next heading; none without such a heading or
\* without a table in between.
TableUnder(lines, sought) ==
    LET headings == {i \in DOMAIN lines : IsHeading(lines[i])}
        matching == {i \in headings :
                        Contains(lower(HeadingText(lines[i])), lower(sought))}
        first == CHOOSE i \in matching : \A j \in matching : i <= j
        later == {i \in headings : i > first}
        next == IF later = {} THEN Len(lines) + 1
                ELSE CHOOSE i \in later : \A j \in later : i <= j
        between == extract_tables(SubSeq(lines, first + 1, next - 1))
    IN  IF matching = {} THEN NoTable
        ELSE IF between = <<>> THEN NoTable
        ELSE between[1]

\* C23: extract_table_by_header returns the first table between the first
\* heading whose text contains the text sought, letter case aside, and the
\* next heading of any level, and None when no heading matches or no table
\* lies in between, whatever tables lie before the heading or after the next.
C23_TableByHeader ==
    last.op = "extract_table_by_header" =>
        last.returned = TableUnder(last.lines, last.header_contains)

\* DebtAuditor.validate has returned a result.
DebtAudited == last.op = "debt-auditor" /\ ~last.raised

\* The rows of a debt table with a date understood, older than the threshold,
\* and of high priority or not.
aged_rows(rows, high) ==
    {i \in DOMAIN rows :
        /\ rows[i].dated
        /\ rows[i].age > DEFAULT_AGE_THRESHOLD_DAYS * HoursPerDay
        /\ (Lower(Chars(rows[i].priority)) = Chars("high")) = high}

\* The age_threshold issues of a severity that a result holds for a system.
age_issues(result, system, severity) ==
    {i \in issues_for(result, system, "age_threshold") :
        result.issues[i].severity = severity}

\* C24: for the rows of a debt table with a parseable created date
\* DebtAuditor emits one age_threshold issue for each row older than the
\* threshold of 30 days and none for the others, a warning for a row of high
\* priority and an info for any other; a debt document without rows yields one
\* info issue; no issue of a debt document is an error.
C24_DebtAge ==
    DebtAudited =>
        \A system \in last.before.fs.ctx :
            LET doc == last.before.fs.debt[system]
                result == last.result
                mine == issues_of(result, system)
            IN  /\ \A i \in mine : result.issues[i].severity # "error"
                /\ doc.state # "ok" => mine = {}
                /\ doc.state = "ok" /\ doc.rows = <<>> =>
                       /\ Cardinality(mine) = 1
                       /\ \A i \in mine : result.issues[i].severity = "info"
                /\ doc.state = "ok" /\ doc.rows # <<>> =>
                       /\ Cardinality(age_issues(result, system, "warning")) =
                              Cardinality(aged_rows(doc.rows, TRUE))
                       /\ Cardinality(age_issues(result, system, "info")) =
                              Cardinality(aged_rows(doc.rows, FALSE))
                       /\ issues_for(result, system, "age_threshold") =
                              age_issues(result, system, "warning")
                                  \cup age_issues(result, system, "info")

\* C24 witness: one row of priority high, created 45 days ago, has exactly one
\* age_threshold warning.
C24_Witness ==
    /\ DebtAudited
    /\ last.before.fs.debt["api"].rows =
           <<[priority |-> "high", dated |-> TRUE, age |-> 45 * HoursPerDay,
              changed |-> 0]>>
    /\ Cardinality(issues_of(last.result, "api")) = 1
    /\ Cardinality(age_issues(last.result, "api", "warning")) = 1
    /\ last.result.status = "pass"

\* FreshnessChecker.validate has returned a result.
FreshnessChecked == last.op = "freshness-checker" /\ ~last.raised

\* The severities of the issues that a result holds for a document of a system.
severities_of(result, system, doc_name) ==
    [i \in {j \in issues_of(result, system) : result.issues[j].file = doc_name}
        |-> result.issues[i].severity]

\* No issue up to the threshold, one warning up to the severe threshold, one
\* error beyond.
Graded(found, lag, threshold_days) ==
    IF lag <= threshold_days * HoursPerDay THEN DOMAIN found = {}
    ELSE /\ Cardinality(DOMAIN found) = 1
         /\ \A i \in DOMAIN found :
                found[i] = IF lag <= SEVERE_STALENESS_DAYS * HoursPerDay
                           THEN "warning" ELSE "error"

\* No issue up to the threshold, one warning beyond.
Warned(found, lag, threshold_days) ==
    IF lag <= threshold_days * HoursPerDay THEN DOMAIN found = {}
    ELSE Cardinality(DOMAIN found) = 1 /\ \A i \in DOMAIN found : found[i] = "warning"

\* The time of the newest of a list of files.
newest(files) == CHOOSE t \in {files[i].t : i \in DOMAIN files} :
                     \A i \in DOMAIN files : files[i].t <= t

\* snapshot.md and constraints.md of every system with source files are
\* graded by their lag behind the newest source change.
SourceDocsGraded ==
    FreshnessChecked =>
        \A system \in last.before.fs.ctx \ {Root} :
            LET f == last.before.fs IN
            f.sources[system] # <<>> =>
                /\ f.snapshot[system].state # "absent" =>
                       Graded(severities_of(last.result, system, "snapshot.md"),
                              newest(f.sources[system]) - f.snapshot[system].t,
                              SNAPSHOT_THRESHOLD_DAYS)
                /\ f.constraints[system].state # "absent" =>
                       Graded(severities_of(last.result, system, "constraints.md"),
                              newest(f.sources[system]) - f.constraints[system].t,
                              CONSTRAINTS_THRESHOLD_DAYS)

\* C25 as stated: snapshot.md and constraints.md are graded by their lag behind
\* the newest source change, and decisions.md in the same way by its lag
\* behind its newest ADR file.
C25_ThreeDocsGraded ==
    /\ SourceDocsGraded
    /\ FreshnessChecked =>
           \A system \in last.before.fs.ctx \ {Root} :
               LET f == last.before.fs IN
               f.decisions[system].state # "absent" /\ f.adr[system].files # <<>> =>
                   Graded(severities_of(last.result, system, "decisions.md"),
                          newest(f.adr[system].files) - f.decisions[system].t,
                          DECISIONS_THRESHOLD_DAYS)

\* C25: for every system with source files, snapshot.md (7 days) and
\* constraints.md (14 days) have no issue when their lag behind the newest
\* source change is at most the threshold, a warning when it exceeds the
\* threshold but not the severe threshold of 30 days, and an error beyond;
\* decisions.md has no issue when its lag behind its newest ADR file is at
\* most 1 day and a warning beyond, never an error.
C25_TwoDocsGraded ==
    /\ SourceDocsGraded
    /\ FreshnessChecked =>
           \A system \in last.before.fs.ctx \ {Root} :
               LET f == last.before.fs IN
               (/\ f.sources[system] # <<>>
                /\ f.decisions[system].state # "absent"
                /\ f.adr[system].files # <<>>) =>
                   Warned(severities_of(last.result, system, "decisions.md"),
                          newest(f.adr[system].files) - f.decisions[system].t,
                          DECISIONS_THRESHOLD_DAYS)

\* C25 witness: a snapshot.md an hour past the severe threshold has its error,
\* a constraints.md at its threshold has no issue, and a decisions.md an hour
\* past the severe threshold behind its newest ADR file has a warning.
C25_Witness ==
    /\ FreshnessChecked
    /\ last.before.fs.sources["api"] # <<>>
    /\ last.before.fs.snapshot["api"].t = Recent - SEVERE_STALENESS_DAYS * HoursPerDay - 1
    /\ last.before.fs.constraints["api"] =
           [state |-> "ok", t |-> Recent - CONSTRAINTS_THRESHOLD_DAYS * HoursPerDay]
    /\ last.before.fs.decisions["api"].t = Recent - SEVERE_STALENESS_DAYS * HoursPerDay - 1
    /\ Len(last.before.fs.adr["api"].files) = 2
    /\ Len(last.result.issues) = 2
    /\ \E i \in issues_of(last.result, "api") :
           /\ last.result.issues[i].file = "snapshot.md"
           /\ last.result.issues[i].severity = "error"
    /\ \E i \in issues_of(last.result, "api") :
           /\ last.result.issues[i].file = "decisions.md"
           /\ last.result.issues[i].severity = "warning"

\* C26: detect_cycles makes no call of strongconnect from within
\* strongconnect: however long the longest dependency chain, at most one frame
\* of strongconnect is on the call stack.
C26_NoRecursivePerNodeCall ==
    last.op = "detect_cycles" => last.depth <= 1

\* C30: for all registered systems x and y, y is in get_all_dependencies(x)
\* if and only if x is in get_all_dependents(y), and in generate_graph's output
\* y is listed in x's dependencies if and only if x is listed in y's
\* dependents.
C30_Converses ==
    /\ (last.op = "get_all_dependencies" /\ last.arg \in systems) =>
          \A y \in systems :
              y \in last.returned <=>
                  last.arg \in get_all_dependents(systems, edges, y).visited
    /\ (last.op = "get_all_dependents" /\ last.arg \in systems) =>
          \A x \in systems :
              x \in last.returned <=>
                  last.arg \in get_all_dependencies(systems, edges, x).visited
    /\ last.op = "generate_graph" =>
          \A i, j \in DOMAIN last.returned :
              InList(last.returned[j].system, last.returned[i].dependencies) <=>
                  InList(last.returned[i].system, last.returned[j].dependents)

\* C30 witness: get_all_dependencies(x) holds a system that x does not depend
\* on directly and leaves out another registered system.
C30_Witness ==
    /\ last.op = "get_all_dependencies"
    /\ last.arg \in systems
    /\ \E y \in last.returned : y # last.arg /\ <<last.arg, y>> \notin edges
    /\ \E z \in systems : z # last.arg /\ z \notin last.returned

\* The number of times each element occurs in a list.
BagOf(s) == [x \in Range(s) |-> Cardinality({i \in DOMAIN s : s[i] = x})]

RECURSIVE one_by_one(_, _, _, _, _)
\* The results of the validators run one after the other in the order of
\* their names, each on the project as the ones before it have left it.
one_by_one(names, faulty, f, db, results) ==
    IF names = <<>> THEN results
    ELSE LET name == Head(names)
             outcome == validate(name, f, db, systems, adrs)
         IN  IF name \in faulty
             THEN one_by_one(Tail(names), faulty, f, db, on_exception(results, name))
             ELSE one_by_one(Tail(names), faulty,
                      IF outcome.opened
                      THEN [f EXCEPT !.ctx = ContextDB_open_ctx(db, FALSE, @)] ELSE f,
                      IF outcome.opened THEN ContextDB_open(db, FALSE, f.ctx) ELSE db,
                      IF outcome.raised THEN on_exception(results, name)
                      ELSE Append(results, outcome.result))

\* What sequential mode returns for the selection of the call on the project
\* as it was when the call began.
SequentialReturn ==
    _aggregate_results(one_by_one(run.valid_names, run.faulty,
                                  run.before.fs, run.before.db_file, <<>>))

\* C27: for the same selection and the same project, run_validators in
\* parallel mode returns, for every completion order of the workers, the same
\* multiset of ValidatorResults as sequential mode, and the same status,
\* validators_run, total_issues, errors, warnings and infos; only the order of
\* results and of all_issues may differ.
C27_ParallelAsSequential ==
    BatchReturned =>
        LET a == run.returned
            s == SequentialReturn
        IN  /\ BagOf(a.results) = BagOf(s.results)
            /\ BagOf(a.all_issues) = BagOf(s.all_issues)
            /\ a.status = s.status
            /\ a.validators_run = s.validators_run
            /\ a.total_issues = s.total_issues
            /\ a.errors = s.errors
            /\ a.warnings = s.warnings
            /\ a.infos = s.infos
            /\ Sequential => a = s

\* C27 witness: a parallel batch has returned its results in another order
\* than sequential mode does, one of them the error result of a validator that
\* could not be created, another with issues of its own.
C27_Witness ==
    /\ BatchReturned
    /\ run.parallel
    /\ Len(run.returned.results) >= 3
    /\ run.returned.results # SequentialReturn.results
    /\ run.returned.all_issues # SequentialReturn.all_issues
    /\ run.faulty # {}
    /\ \E i \in DOMAIN run.returned.results :
           /\ run.returned.results[i].status = "fail"
           /\ run.returned.results[i].issues[1].check # "validator_error"

\* The latest call was fix of a built-in fixer, and it returned a FixResult
\* with success = false.
FixFailed ==
    /\ fixed # <<>>
    /\ fixed[Len(fixed)].op = "fix"
    /\ fixed[Len(fixed)].raised = "none"
    /\ ~fixed[Len(fixed)].result.success

\* C29: whenever fix(issue) of a built-in fixer returns success = false, the
\* filesystem and the store are the same as before the call.
C29_FailedFixChangesNothing ==
    FixFailed =>
        /\ fs = fixed[Len(fixed)].before.fs
        /\ adrs = fixed[Len(fixed)].before.adrs

\* C29: whenever fix(issue) of a built-in fixer returns success = false, the
\* store is the same as before the call, and so is the filesystem, except
\* that MissingCtxDirFixer may have created the directory of the system,
\* empty, where there was none.
C29_FailedFixLeavesAtMostADirectory ==
    FixFailed =>
        LET call == fixed[Len(fixed)] IN
        /\ adrs = call.before.adrs
        /\ [fs EXCEPT !.dirs = call.before.fs.dirs] = call.before.fs
        /\ fs.dirs # call.before.fs.dirs =>
              /\ call.invoked = <<"MissingCtxDirFixer">>
              /\ call.issue.system \notin call.before.fs.dirs
              /\ fs.dirs = call.before.fs.dirs \cup {call.issue.system}
              /\ fs.files[call.issue.system] = {}
              /\ call.issue.system \notin fs.ctx

\* C29 witness: fix of MissingCtxDirFixer has failed after it created the
\* directory ui, and has left it behind.
C29_Witness ==
    /\ FixFailed
    /\ fixed[Len(fixed)].invoked = <<"MissingCtxDirFixer">>
    /\ fixed[Len(fixed)].issue.system = "ui"
    /\ "ui" \notin fixed[Len(fixed)].before.fs.dirs
    /\ "ui" \in fs.dirs
    /\ "ui" \notin fs.ctx

\* ------------------------------------------------------------------ validate, fix, validate again

\* A project with the system api, whose snapshot.md may be missing, whose ADR
\* files may be unregistered and whose graph.json may be stale, in git or not.
InitRepair ==
    /\ systems = {"core"}
    /\ edges = {}
    /\ last = [op |-> "init"]
    /\ run = NoRun
    /\ tx = NoTransaction
    /\ fixed = <<>>
    /\ _fixers = _create_default_registry
    /\ adrs \in {{}, {[id |-> "ADR-1", file_path |-> "api/.ctx/adr/ADR-1.md"]}}
    /\ db_file \in {"absent", "empty", "ok"}
    /\ \E snapshot \in {NoSnapshot, CleanSnapshot},
          adr \in {NoAdrDir, [exists |-> TRUE, files |-> <<SupersededAdr>>],
                   [exists |-> TRUE, files |-> <<SupersededAdr, Adr2File>>]},
          graph \in {NoDoc, [state |-> "ok", t |-> Recent - 8 * HoursPerDay],
                     [state |-> "ok", t |-> Recent - 7 * HoursPerDay]},
          committed \in {{}, {"graph.json"}},
          fault \in {"none", "read_only", "templates_missing"} :
        /\ graph = NoDoc => committed = {}
        /\ fs = faulty_tree(
                  [EmptyTree EXCEPT
                      !.ctx = {Root, "api"},
                      !.dirs = {"api"},
                      !.files["api"] = {"main.py"},
                      !.sources["api"] = <<[t |-> Recent, aware |-> TRUE]>>,
                      !.snapshot["api"] = snapshot,
                      !.adr["api"] = adr,
                      !.graph = graph,
                      !.graph_json = IF graph = NoDoc THEN <<>> ELSE StoredGraph,
                      !.committed = committed],
                  fault)

\* get_global_registry().apply_fix(issue) on a fixable issue of the result
\* that the validator has just returned
repair ==
    /\ last.op \in {"snapshot-validator", "adr-validator", "freshness-checker"}
    /\ ~last.raised
    /\ \E i \in DOMAIN last.result.issues, keys \in Permutations_of(systems) :
        LET issue == last.result.issues[i]
            fixer_class == get_fixer(_fixers, issue.fix_id)
            out == IF fixer_class = "None"
                   THEN returns(FixResult(FALSE,
                                    "No fixer registered for fix_id: " \o issue.fix_id,
                                    <<>>), fs, adrs)
                   ELSE fix_of(fixer_class, fs, db_file, systems, edges, adrs, issue, keys)
            invoked == IF fixer_class = "None" THEN <<>> ELSE <<fixer_class>>
        IN  /\ issue.fix_id # ""
            /\ fs' = out.fs
            /\ adrs' = out.adrs
            /\ fixed' = <<FixCall("apply_fix", invoked, issue, out, fs, adrs) @@
                          [emitter |-> last.op,
                           after |-> [fs |-> out.fs, adrs |-> out.adrs]]>>
    /\ UNCHANGED <<systems, edges, last, db_file, run, _fixers, tx>>

NextRepair ==
    \/ validate_snapshots
    \/ validate_adrs
    \/ validate_freshness
    \/ repair

SpecRepair == InitRepair /\ [][NextRepair]_vars

\* apply_fix has returned success = true for an issue of a validator, and the
\* same validator has run again on the project as the fix left it.
Revalidated ==
    /\ fixed # <<>>
    /\ fixed[1].raised = "none"
    /\ fixed[1].result.success
    /\ last.op = fixed[1].emitter
    /\ ~last.raised
    /\ last.before.fs = fixed[1].after.fs
    /\ last.before.adrs = fixed[1].after.adrs

\* C28: the global registry has a fixer for the fix_id of every FixableIssue
\* that a built-in validator emits, and once apply_fix has returned success =
\* true for such an issue, the same validator, run again with no other change
\* in between, does not emit that issue.
C28_FixResolvesIssue ==
    /\ (last.op \in {"snapshot-validator", "adr-validator", "freshness-checker"}
            /\ ~last.raised) =>
          \A i \in DOMAIN last.result.issues :
              last.result.issues[i].fix_id # "" =>
                  /\ last.result.issues[i].fix_id \in DOMAIN _create_default_registry
                  /\ get_fixer(_fixers, last.result.issues[i].fix_id) # "None"
    /\ Revalidated => ~InList(fixed[1].issue, last.result.issues)

====
